---- MODULE Spec2Model ----
(***************************************************************************)
(* Model of the covert-channel measurement pipeline of ucanyiit/middlebox  *)
(* (code/utils/phase2, phase3, phase4): record sequencing, metric          *)
(* derivation, the statistical estimator and the classification engine.    *)
(*                                                                         *)
(* Python values are modelled as records of one shape,                     *)
(*   [kind, num, den]  with kind in absent | none | bool | int | float,    *)
(* "absent" being a key that is not in a dict, "none" the value None.      *)
(* A float is the exact rational num/den (den > 0); rounding of IEEE       *)
(* doubles is not modelled.                                                *)
(***************************************************************************)
EXTENDS Integers, Sequences, FiniteSets, TLC

VARIABLES
    receiver_file,   \* phase4: the receiver log given to parse_covert_channel_data
    parsed_data,     \* phase4: the list parse_covert_channel_data builds
    parse_status,    \* phase4: "idle" | "pending" | "ok" | "None" | "KeyError"
    threat_score,    \* phase3: argument of classify_detection
    ground_truth_positive,   \* phase3: argument of classify_detection
    classification,  \* phase3: what classify_detection returned, "" before the call
    classifications, \* phase3: argument of calculate_detection_metrics
    metrics,         \* phase3: what calculate_detection_metrics returned
    covert_data,     \* phase3: parsed covert corpus, a list of {threat_score}
    normal_data,     \* phase3: parsed normal corpus, a list of {threat_score}
    combined,        \* phase3: what analyze_combined_datasets returned
    data,            \* the sample list given to calculate_stats_and_ci
    estimate,        \* what calculate_stats_and_ci returned, and which copy ran
    cap_args,        \* arguments of a call of one of the capacity functions
    cap_result,      \* what the capacity function returned, and which one ran
    sender_file,     \* phase2: the log file of one condition and its label
    condition,       \* phase2: what the main loop derived for that file
    covert_log,      \* phase3: the file DEFAULT_COVERT_LOG names
    normal_log,      \* phase3: the file DEFAULT_NORMAL_LOG names
    p3_pc,           \* phase3: the statement of the main block to run next
    p3,              \* phase3: the variables of the main block
    eff_args,        \* phase4: arguments of calculate_mitigation_effectiveness
    eff_result,      \* phase4: what calculate_mitigation_effectiveness returned
    receiver_results,   \* phase4: the dict analyze_receiver_performance returned, in key order
    baseline_capacity,  \* phase4: the baseline mean the main block looks up
    summary,         \* phase4: what generate_summary_report computed
    detailed_results,   \* phase4: the dict calculate_additional_metrics returned, in key order
    impact,          \* phase4: what calculate_mitigation_impact_metrics computed
    raw_text,        \* the text of a log, as the pieces between its delimiters
    parse_result,    \* what parse_covert_channel_data made of it, and which copy ran
    run_files,       \* the log files a script reads, in the order it reads them
    run,             \* the script running, the file it reads next and what it has parsed
    receiver_result, \* phase4: what analyze_receiver_performance derived for the condition
    receiver_logs,   \* phase4: the files receiver_files names, in key order
    parsed_receiver_data,   \* phase4: the dict parse_all_data_files returned, in key order
    correctness_results,    \* phase4: the dict calculate_correctness_metrics returned
    analysis_pc      \* phase4: the call of the main block to run next

seqVars == <<receiver_file, parsed_data, parse_status>>
clsVars == <<threat_score, ground_truth_positive, classification>>
metVars == <<classifications, metrics>>
cmbVars == <<covert_data, normal_data, combined>>
estVars == <<data, estimate>>
capVars == <<cap_args, cap_result>>
p2Vars == <<sender_file, condition>>
p3Vars == <<covert_log, normal_log, p3_pc, p3>>
effVars == <<eff_args, eff_result>>
sumVars == <<receiver_results, baseline_capacity, summary>>
impVars == <<detailed_results, impact>>
rawVars == <<raw_text, parse_result>>
runVars == <<run_files, run>>
rcvVars == <<receiver_result>>
anaVars == <<receiver_logs, parsed_receiver_data, correctness_results, analysis_pc>>

vars == <<seqVars, clsVars, metVars, cmbVars, estVars, capVars, p2Vars, p3Vars, effVars, sumVars, impVars, rawVars, runVars, rcvVars, anaVars>>

----------------------------------------------------------------------------
(* Bounds *)

MaxTrials == 3      \* blocks in one receiver log
MaxTime == 2        \* largest "Reassembly took" value drawn for a block, in 0.1 s
MaxSize == 1        \* the "Total size of message" value drawn for a block

----------------------------------------------------------------------------
(* Python values *)

Absent == [kind |-> "absent", num |-> 0, den |-> 1]
PyNone == [kind |-> "none", num |-> 0, den |-> 1]
IntVal(n) == [kind |-> "int", num |-> n, den |-> 1]
BoolVal(b) == [kind |-> "bool", num |-> IF b THEN 1 ELSE 0, den |-> 1]
FloatVal(n, d) == [kind |-> "float", num |-> n, den |-> d]

PyTrue == BoolVal(TRUE)
PyFalse == BoolVal(FALSE)

\* dict.get(key, default)
DictGet(v, default) == IF v.kind = "absent" THEN default ELSE v

\* truth value of a Python object
Truthy(v) == v.kind \in {"bool", "int", "float"} /\ v.num # 0

\* all sequences over S of length lo..hi
SeqsOf(S, lo, hi) == UNION {[1..n -> S] : n \in lo..hi}

\* greatest common divisor of two naturals
RECURSIVE Gcd(_, _)
Gcd(a, b) == IF b = 0 THEN a ELSE Gcd(b, a % b)

Abs(n) == IF n < 0 THEN -n ELSE n

\* the float num/den in lowest terms, den > 0
Rat(n, d) ==
    LET g == Gcd(Abs(n), Abs(d))
        sgn == IF d < 0 THEN -1 ELSE 1
    IN FloatVal(sgn * (n \div g), sgn * (d \div g))

\* the value an expression has when evaluating it raised ZeroDivisionError
ZeroDivisionError == [kind |-> "ZeroDivisionError", num |-> 0, den |-> 1]

IsNumber(v) == v.kind \in {"bool", "int", "float"}

\* a / b (true division): always a float, raises on b = 0
PyDiv(a, b) ==
    IF ~IsNumber(a) \/ ~IsNumber(b) \/ b.num = 0
    THEN ZeroDivisionError
    ELSE Rat(a.num * b.den, a.den * b.num)

\* a * b, a + b, a - b
PyMul(a, b) ==
    IF ~IsNumber(a) \/ ~IsNumber(b) THEN ZeroDivisionError
    ELSE IF a.kind = "float" \/ b.kind = "float"
         THEN Rat(a.num * b.num, a.den * b.den)
         ELSE IntVal(a.num * b.num)

PyAdd(a, b) ==
    IF ~IsNumber(a) \/ ~IsNumber(b) THEN ZeroDivisionError
    ELSE IF a.kind = "float" \/ b.kind = "float"
         THEN Rat(a.num * b.den + b.num * a.den, a.den * b.den)
         ELSE IntVal(a.num + b.num)

PySub(a, b) ==
    IF ~IsNumber(a) \/ ~IsNumber(b) THEN ZeroDivisionError
    ELSE IF a.kind = "float" \/ b.kind = "float"
         THEN Rat(a.num * b.den - b.num * a.den, a.den * b.den)
         ELSE IntVal(a.num - b.num)

\* comparisons of numbers
PyLt(a, b) == a.num * b.den < b.num * a.den
PyLe(a, b) == a.num * b.den <= b.num * a.den
PyGt(a, b) == PyLt(b, a)
PyEq(a, b) == a.num * b.den = b.num * a.den

----------------------------------------------------------------------------
(* The state of each script when it is not the one running *)

IdleSeq ==
    /\ receiver_file = [found |-> FALSE, entries |-> <<>>]
    /\ parsed_data = <<>>
    /\ parse_status = "idle"

IdleClassify ==
    /\ threat_score = PyNone
    /\ ground_truth_positive = FALSE
    /\ classification = ""

NoMetrics == [status |-> "idle"]

IdleMetrics ==
    /\ classifications = <<>>
    /\ metrics = NoMetrics

IdleCombined ==
    /\ covert_data = <<>>
    /\ normal_data = <<>>
    /\ combined = [status |-> "idle"]

IdleEstimate ==
    /\ data = <<>>
    /\ estimate = [fn |-> "idle"]

IdleCapacity ==
    /\ cap_args = [fn |-> "idle"]
    /\ cap_result = [fn |-> "idle"]

IdlePhase2 ==
    /\ sender_file = [found |-> FALSE, typed |-> FALSE, entries |-> <<>>]
    /\ condition = [status |-> "idle"]

\* the variables of the phase3 main block before any is assigned
Phase3Unassigned ==
    [covert_data |-> <<>>, normal_data |-> <<>>,
     pure_covert_classifications |-> <<>>, pure_covert_metrics |-> NoMetrics,
     normal_classifications |-> <<>>, normal_metrics |-> NoMetrics,
     combined_metrics |-> NoMetrics, combined_scores |-> <<>>,
     covert_statistics |-> [fn |-> "idle"], normal_statistics |-> [fn |-> "idle"],
     classified |-> 0]

IdlePhase3 ==
    /\ covert_log = [found |-> FALSE, entries |-> <<>>]
    /\ normal_log = [found |-> FALSE, entries |-> <<>>]
    /\ p3_pc = "idle"
    /\ p3 = Phase3Unassigned

IdleEffectiveness ==
    /\ eff_args = [fn |-> "idle"]
    /\ eff_result = [fn |-> "idle"]

IdleSummary ==
    /\ receiver_results = <<>>
    /\ baseline_capacity = PyNone
    /\ summary = [fn |-> "idle"]

IdleImpact ==
    /\ detailed_results = <<>>
    /\ impact = [fn |-> "idle"]

IdleRaw ==
    /\ raw_text = <<>>
    /\ parse_result = [fn |-> "idle"]

IdleRun ==
    /\ run_files = <<>>
    /\ run = [program |-> "idle"]

IdleReceiver == receiver_result = [status |-> "idle"]

IdleAnalysis ==
    /\ receiver_logs = <<>>
    /\ parsed_receiver_data = <<>>
    /\ correctness_results = <<>>
    /\ analysis_pc = "idle"

----------------------------------------------------------------------------
(* phase4: parse_covert_channel_data *)

NS_PER_MS == 1000000

\* A block of the log, by the fields whose pattern matches in it.
Blocks ==
    [reassembly_time_ns : {Absent} \cup {IntVal(t * 100000000) : t \in 0..MaxTime},
     chunks_received : {IntVal(1)},
     message_size : {Absent, IntVal(MaxSize)},
     correctness : {Absent, PyTrue, PyFalse}]

\* the trials of the sequencing example of the specification
ExampleTrials ==
    LET flags == <<TRUE, FALSE, TRUE, TRUE>>
        times == <<100, 200, 350, 500>>
    IN [i \in 1..4 |->
          [reassembly_time_ns |-> IntVal(times[i]),
           chunks_received |-> IntVal(1),
           message_size |-> IntVal(1),
           correctness |-> BoolVal(flags[i])]]

\* a receiver log: whether open() finds it, and its non-blank entries
ReceiverFile(found, entries) == [found |-> found, entries |-> entries]

\* first pass: one dict per entry, holding the matched fields only
FirstPass(entries) ==
    [i \in 1..Len(entries) |->
        [reassembly_time_ns |-> entries[i].reassembly_time_ns,
         chunks_received |-> entries[i].chunks_received,
         message_size |-> entries[i].message_size,
         correctness |-> entries[i].correctness,
         time_diff_ns |-> Absent,
         time_diff_ms |-> Absent]]

\* One iteration of the second pass, skipping nothing: a mutation that takes
\* every record as the previous one.
SequenceStepEveryRecord(cur, last) ==
    IF cur.reassembly_time_ns.kind = "absent"
    THEN IF Truthy(DictGet(cur.correctness, PyFalse))
         THEN [raised |-> TRUE, rec |-> cur, last |-> last]
         ELSE [raised |-> FALSE,
               rec |-> [cur EXCEPT !.time_diff_ns = PyNone, !.time_diff_ms = PyNone],
               last |-> last]
    ELSE IF Truthy(DictGet(cur.correctness, PyFalse))
         THEN LET diff == IF last # PyNone
                          THEN cur.reassembly_time_ns.num - last.num
                          ELSE cur.reassembly_time_ns.num
              IN [raised |-> FALSE,
                  rec |-> [cur EXCEPT !.time_diff_ns = IntVal(diff),
                                      !.time_diff_ms = FloatVal(diff, NS_PER_MS)],
                  last |-> cur.reassembly_time_ns]
         ELSE [raised |-> FALSE,
               rec |-> [cur EXCEPT !.time_diff_ns = PyNone, !.time_diff_ms = PyNone],
               last |-> cur.reassembly_time_ns]

\* The iteration with the first correct time kept as last_correct_time_ns for
\* the whole pass: a mutation that never moves the previous correct record.
SequenceStepKeepsFirst(cur, last) ==
    IF Truthy(DictGet(cur.correctness, PyFalse))
    THEN IF cur.reassembly_time_ns.kind = "absent"
         THEN [raised |-> TRUE, rec |-> cur, last |-> last]
         ELSE LET diff == IF last # PyNone
                          THEN cur.reassembly_time_ns.num - last.num
                          ELSE cur.reassembly_time_ns.num
              IN [raised |-> FALSE,
                  rec |-> [cur EXCEPT !.time_diff_ns = IntVal(diff),
                                      !.time_diff_ms = FloatVal(diff, NS_PER_MS)],
                  last |-> IF last # PyNone THEN last ELSE cur.reassembly_time_ns]
    ELSE [raised |-> FALSE,
          rec |-> [cur EXCEPT !.time_diff_ns = PyNone, !.time_diff_ms = PyNone],
          last |-> last]

\* The iteration reading the flag as .get("correctness", True): a mutation
\* that takes a record without a correctness line as correct.
SequenceStepDefaultTrue(cur, last) ==
    IF Truthy(DictGet(cur.correctness, PyTrue))
    THEN IF cur.reassembly_time_ns.kind = "absent"
         THEN [raised |-> TRUE, rec |-> cur, last |-> last]
         ELSE LET diff == IF last # PyNone
                          THEN cur.reassembly_time_ns.num - last.num
                          ELSE cur.reassembly_time_ns.num
              IN [raised |-> FALSE,
                  rec |-> [cur EXCEPT !.time_diff_ns = IntVal(diff),
                                      !.time_diff_ms = FloatVal(diff, NS_PER_MS)],
                  last |-> cur.reassembly_time_ns]
    ELSE [raised |-> FALSE,
          rec |-> [cur EXCEPT !.time_diff_ns = PyNone, !.time_diff_ms = PyNone],
          last |-> last]

\* The iteration without its else branch: a mutation that leaves an
\* incorrect record as the first pass built it.
SequenceStepNoElse(cur, last) ==
    IF Truthy(DictGet(cur.correctness, PyFalse))
    THEN IF cur.reassembly_time_ns.kind = "absent"
         THEN [raised |-> TRUE, rec |-> cur, last |-> last]
         ELSE LET diff == IF last # PyNone
                          THEN cur.reassembly_time_ns.num - last.num
                          ELSE cur.reassembly_time_ns.num
              IN [raised |-> FALSE,
                  rec |-> [cur EXCEPT !.time_diff_ns = IntVal(diff),
                                      !.time_diff_ms = FloatVal(diff, NS_PER_MS)],
                  last |-> cur.reassembly_time_ns]
    ELSE [raised |-> FALSE, rec |-> cur, last |-> last]

\* One iteration of the second pass (body of the for loop): the record as
\* the iteration leaves it, the new last_correct_time_ns, and whether the
\* subscript current_message["reassembly_time_ns"] raised KeyError.
SequenceStep(cur, last) ==
    IF Truthy(DictGet(cur.correctness, PyFalse))
    THEN IF cur.reassembly_time_ns.kind = "absent"
         THEN [raised |-> TRUE, rec |-> cur, last |-> last]
         ELSE LET diff == IF last # PyNone
                          THEN cur.reassembly_time_ns.num - last.num
                          ELSE cur.reassembly_time_ns.num
              IN [raised |-> FALSE,
                  rec |-> [cur EXCEPT !.time_diff_ns = IntVal(diff),
                                      !.time_diff_ms = FloatVal(diff, NS_PER_MS)],
                  last |-> cur.reassembly_time_ns]
    ELSE [raised |-> FALSE,
          rec |-> [cur EXCEPT !.time_diff_ns = PyNone, !.time_diff_ms = PyNone],
          last |-> last]

\* the second pass from record i on; on KeyError the list is left as the
\* iterations before the raise made it
RECURSIVE SecondPass(_, _, _)
SecondPass(recs, i, last) ==
    IF i > Len(recs)
    THEN [status |-> "ok", data |-> recs]
    ELSE LET step == SequenceStep(recs[i], last)
         IN IF step.raised
            THEN [status |-> "KeyError", data |-> recs]
            ELSE SecondPass([recs EXCEPT ![i] = step.rec], i + 1, step.last)

\* the whole function: None for a missing file or a file without entries
phase4_parse_covert_channel_data(file) ==
    IF ~file.found \/ Len(file.entries) = 0
    THEN [status |-> "None", data |-> <<>>]
    ELSE SecondPass(FirstPass(file.entries), 1, PyNone)

ParseReceiverLog ==
    /\ parse_status = "pending"
    /\ LET r == phase4_parse_covert_channel_data(receiver_file)
       IN /\ parsed_data' = r.data
          /\ parse_status' = r.status
    /\ UNCHANGED <<receiver_file, clsVars, metVars, cmbVars, estVars, capVars, p2Vars, p3Vars, effVars, sumVars, impVars, rawVars, runVars, rcvVars, anaVars>>

InitSeq ==
    /\ \/ receiver_file = ReceiverFile(FALSE, <<>>)
       \/ \E n \in 0..MaxTrials : \E e \in [1..n -> Blocks] :
              receiver_file = ReceiverFile(TRUE, e)
       \/ receiver_file = ReceiverFile(TRUE, ExampleTrials)
    /\ parsed_data = <<>>
    /\ parse_status = "pending"
    /\ IdleClassify
    /\ IdleMetrics
    /\ IdleCombined
    /\ IdleEstimate
    /\ IdleCapacity
    /\ IdlePhase2
    /\ IdlePhase3
    /\ IdleEffectiveness
    /\ IdleSummary
    /\ IdleImpact
    /\ IdleRaw
    /\ IdleRun
    /\ IdleReceiver
    /\ IdleAnalysis

NextSeq == ParseReceiverLog

SpecSeq == InitSeq /\ [][NextSeq]_vars

----------------------------------------------------------------------------
(* Sequencing properties *)

IsCorrect(r) == r.correctness = PyTrue

\* the nearest record before i with correctness = true, 0 if there is none
PrevCorrect(recs, i) ==
    LET earlier == {j \in 1..(i - 1) : IsCorrect(recs[j])}
    IN IF earlier = {} THEN 0 ELSE CHOOSE j \in earlier : \A k \in earlier : k <= j

\* the records the second pass reached before it ended
Sequenced ==
    IF parse_status = "ok" THEN 1..Len(parsed_data)
    ELSE {i \in 1..Len(parsed_data) :
            \A j \in 1..i : IsCorrect(parsed_data[j])
                              => parsed_data[j].reassembly_time_ns # Absent}

TimeDiffs ==
    LET given == SelectSeq(parsed_data, LAMBDA r : r.time_diff_ns.kind = "int")
    IN [i \in 1..Len(given) |-> given[i].time_diff_ns]

\* sum() of a list of ints
RECURSIVE SumOfInts(_)
SumOfInts(list) ==
    IF Len(list) = 0 THEN IntVal(0) ELSE IntVal(list[1].num + SumOfInts(Tail(list)).num)

\* the last record with correctness = true, 0 if there is none
LastCorrect == PrevCorrect(parsed_data, Len(parsed_data) + 1)

NoCorrectnessLine(r) == r.correctness = Absent

\* C27: a record whose block has no "Correctness of message" line gets
\* time_diff_ns = None and time_diff_ms = None from the pass, and a later
\* correct record still takes its difference from the nearest earlier record
\* with correctness = true, whatever reassembly time the record without the
\* line has.
C27_NoCorrectnessLineIsIncorrect ==
    parse_status \in {"ok", "KeyError"} =>
        \A i \in Sequenced :
            NoCorrectnessLine(parsed_data[i]) =>
                /\ parsed_data[i].time_diff_ns = PyNone
                /\ parsed_data[i].time_diff_ms = PyNone
                /\ \A j \in Sequenced :
                      (j > i /\ IsCorrect(parsed_data[j])) =>
                          LET p == PrevCorrect(parsed_data, j)
                          IN /\ p # i
                             /\ parsed_data[j].time_diff_ns =
                                  IntVal(parsed_data[j].reassembly_time_ns.num
                                         - (IF p = 0 THEN 0
                                            ELSE parsed_data[p].reassembly_time_ns.num))

\* a record without the line, carrying a reassembly time, between two
\* correct records: the second difference spans it
C27_Witness ==
    /\ parse_status = "ok"
    /\ Len(parsed_data) = 3
    /\ IsCorrect(parsed_data[1])
    /\ NoCorrectnessLine(parsed_data[2])
    /\ parsed_data[2].reassembly_time_ns # Absent
    /\ parsed_data[2].reassembly_time_ns # parsed_data[1].reassembly_time_ns
    /\ parsed_data[2].time_diff_ns = PyNone
    /\ IsCorrect(parsed_data[3])
    /\ parsed_data[3].time_diff_ns =
         IntVal(parsed_data[3].reassembly_time_ns.num
                - parsed_data[1].reassembly_time_ns.num)

----------------------------------------------------------------------------
(* phase3: classify_detection *)

DETECTION_THRESHOLD == 1000

MaxScoreDelta == 12   \* scores are drawn within this many halves of the threshold

\* threat scores: the halves around the threshold and the scores of the examples
Scores ==
    {Rat(2 * DETECTION_THRESHOLD + d, 2) : d \in (-MaxScoreDelta)..MaxScoreDelta}
    \cup {Rat(500, 1), Rat(1500, 1)}

\* classify_detection with >= for >
classify_detection_ge(score, truth) ==
    LET predicted_positive == ~PyLt(score, Rat(DETECTION_THRESHOLD, 1))
    IN IF truth /\ predicted_positive THEN "TP"
       ELSE IF ~truth /\ ~predicted_positive THEN "TN"
       ELSE IF ~truth /\ predicted_positive THEN "FP"
       ELSE "FN"

classify_detection(score, truth) ==
    LET predicted_positive == PyGt(score, Rat(DETECTION_THRESHOLD, 1))
    IN IF truth /\ predicted_positive THEN "TP"
       ELSE IF ~truth /\ ~predicted_positive THEN "TN"
       ELSE IF ~truth /\ predicted_positive THEN "FP"
       ELSE "FN"

ClassifyDetection ==
    /\ classification = ""
    /\ threat_score # PyNone
    /\ classification' = classify_detection(threat_score, ground_truth_positive)
    /\ UNCHANGED <<threat_score, ground_truth_positive, seqVars, metVars, cmbVars, estVars, capVars, p2Vars, p3Vars, effVars, sumVars, impVars, rawVars, runVars, rcvVars, anaVars>>

InitClassify ==
    /\ threat_score \in Scores
    /\ ground_truth_positive \in BOOLEAN
    /\ classification = ""
    /\ IdleSeq
    /\ IdleMetrics
    /\ IdleCombined
    /\ IdleEstimate
    /\ IdleCapacity
    /\ IdlePhase2
    /\ IdlePhase3
    /\ IdleEffectiveness
    /\ IdleSummary
    /\ IdleImpact
    /\ IdleRaw
    /\ IdleRun
    /\ IdleReceiver
    /\ IdleAnalysis

NextClassify == ClassifyDetection

SpecClassify == InitClassify /\ [][NextClassify]_vars

\* C2: classify_detection returns exactly one of TP, TN, FP, FN, by the
\* ground truth and the strict test score > 1000: a score equal to the
\* threshold is a negative prediction (FN or TN).
C2_StrictThreshold ==
    classification # "" =>
        LET above == threat_score.num > 1000 * threat_score.den
        IN /\ classification \in {"TP", "TN", "FP", "FN"}
           /\ (classification = "TP") <=> (ground_truth_positive /\ above)
           /\ (classification = "FN") <=> (ground_truth_positive /\ ~above)
           /\ (classification = "FP") <=> (~ground_truth_positive /\ above)
           /\ (classification = "TN") <=> (~ground_truth_positive /\ ~above)
           /\ (threat_score.num = 1000 /\ threat_score.den = 1)
                => classification \in {"FN", "TN"}

\* a covert sample scoring exactly the threshold is missed
C2_Witness ==
    /\ threat_score = FloatVal(1000, 1)
    /\ ground_truth_positive
    /\ classification = "FN"

----------------------------------------------------------------------------
(* phase3: calculate_detection_metrics *)

MaxClassified == 4   \* length of the list given to calculate_detection_metrics

Labels == {"TP", "TN", "FP", "FN"}

\* list.count(x)
Count(list, x) == Cardinality({i \in 1..Len(list) : list[i] = x})

Accuracy(tp, tn, total) ==
    IF total > 0 THEN PyDiv(IntVal(tp + tn), IntVal(total)) ELSE IntVal(0)

\* precision without its guard
PrecisionUnguarded(tp, fp) == PyDiv(IntVal(tp), IntVal(tp + fp))

Precision(tp, fp) ==
    IF (tp + fp) > 0 THEN PyDiv(IntVal(tp), IntVal(tp + fp)) ELSE IntVal(0)

Recall(tp, fn) ==
    IF (tp + fn) > 0 THEN PyDiv(IntVal(tp), IntVal(tp + fn)) ELSE IntVal(0)

Specificity(tn, fp) ==
    IF (tn + fp) > 0 THEN PyDiv(IntVal(tn), IntVal(tn + fp)) ELSE IntVal(0)

F1_Score(precision, recall) ==
    IF PyGt(PyAdd(precision, recall), IntVal(0))
    THEN PyDiv(PyMul(IntVal(2), PyMul(precision, recall)), PyAdd(precision, recall))
    ELSE IntVal(0)

\* F2 with the denominator of F1
F2_ScoreUnweighted(precision, recall) ==
    IF PyGt(PyAdd(PyMul(IntVal(4), precision), recall), IntVal(0))
    THEN PyDiv(PyMul(IntVal(5), PyMul(precision, recall)), PyAdd(precision, recall))
    ELSE IntVal(0)

F2_Score(precision, recall) ==
    IF PyGt(PyAdd(PyMul(IntVal(4), precision), recall), IntVal(0))
    THEN PyDiv(PyMul(IntVal(5), PyMul(precision, recall)),
               PyAdd(PyMul(IntVal(4), precision), recall))
    ELSE IntVal(0)

MetricNames == {"Accuracy", "Precision", "Recall", "Specificity", "F1_Score", "F2_Score"}

\* the dict the function returns; status is the exception when an
\* expression of the body raised
calculate_detection_metrics(list) ==
    LET tp == Count(list, "TP")
        tn == Count(list, "TN")
        fp == Count(list, "FP")
        fn == Count(list, "FN")
        total == tp + tn + fp + fn
        accuracy == Accuracy(tp, tn, total)
        precision == Precision(tp, fp)
        recall == Recall(tp, fn)
        specificity == Specificity(tn, fp)
        f1_score == F1_Score(precision, recall)
        f2_score == F2_Score(precision, recall)
        raised == \E m \in {accuracy, precision, recall, specificity, f1_score, f2_score} :
                      m = ZeroDivisionError
    IN [status |-> IF raised THEN "ZeroDivisionError" ELSE "ok",
        TP |-> tp, TN |-> tn, FP |-> fp, FN |-> fn, Total |-> total,
        Accuracy |-> accuracy, Precision |-> precision, Recall |-> recall,
        Specificity |-> specificity, F1_Score |-> f1_score, F2_Score |-> f2_score]

CalculateDetectionMetrics ==
    /\ metrics = [status |-> "pending"]
    /\ metrics' = calculate_detection_metrics(classifications)
    /\ UNCHANGED <<classifications, seqVars, clsVars, cmbVars, estVars, capVars, p2Vars, p3Vars, effVars, sumVars, impVars, rawVars, runVars, rcvVars, anaVars>>

InitMetrics ==
    /\ classifications \in SeqsOf(Labels, 0, MaxClassified)
    /\ metrics = [status |-> "pending"]
    /\ IdleSeq
    /\ IdleClassify
    /\ IdleCombined
    /\ IdleEstimate
    /\ IdleCapacity
    /\ IdlePhase2
    /\ IdlePhase3
    /\ IdleEffectiveness
    /\ IdleSummary
    /\ IdleImpact
    /\ IdleRaw
    /\ IdleRun
    /\ IdleReceiver
    /\ IdleAnalysis

NextMetrics == CalculateDetectionMetrics

SpecMetrics == InitMetrics /\ [][NextMetrics]_vars

InUnitInterval(m) == m.den > 0 /\ 0 <= m.num /\ m.num <= m.den

\* C3: the counts add up to Total, which is the number of classified
\* samples, and every derived metric lies in [0, 1].
C3_CountsAndUnitInterval ==
    metrics.status = "ok" =>
        /\ metrics.TP + metrics.TN + metrics.FP + metrics.FN = metrics.Total
        /\ metrics.Total = Len(classifications)
        /\ \A name \in MetricNames : InUnitInterval(metrics[name])

\* a matrix with all four outcomes and metrics strictly inside (0, 1)
C3_Witness ==
    /\ metrics.status = "ok"
    /\ metrics.TP = 1 /\ metrics.TN = 1 /\ metrics.FP = 1 /\ metrics.FN = 1
    /\ metrics.F2_Score = FloatVal(1, 2)

\* C4: calculate_detection_metrics never raises, and a metric whose
\* denominator is 0 is exactly 0.
C4_ZeroDenominatorIsZero ==
    metrics.status \notin {"idle", "pending"} =>
        /\ metrics.status = "ok"
        /\ metrics.Total = 0 => metrics.Accuracy = IntVal(0)
        /\ metrics.TP + metrics.FP = 0 => metrics.Precision = IntVal(0)
        /\ metrics.TP + metrics.FN = 0 => metrics.Recall = IntVal(0)
        /\ metrics.TN + metrics.FP = 0 => metrics.Specificity = IntVal(0)
        /\ metrics.Precision.num + metrics.Recall.num = 0
             => metrics.F1_Score = IntVal(0)
        /\ 4 * metrics.Precision.num + metrics.Recall.num = 0
             => metrics.F2_Score = IntVal(0)

\* the empty list: Total = 0 and every metric is 0
C4_Witness ==
    /\ metrics.status = "ok"
    /\ classifications = <<>>
    /\ metrics.Total = 0
    /\ \A name \in MetricNames : metrics[name] = IntVal(0)

----------------------------------------------------------------------------
(* phase3: analyze_combined_datasets *)

MaxCorpus == 3   \* samples in one parsed corpus

\* scores of corpus samples: below, at, just above and above the threshold
CorpusScores ==
    {Rat(500, 1), Rat(DETECTION_THRESHOLD, 1),
     Rat(2 * DETECTION_THRESHOLD + 1, 2), Rat(1500, 1)}

Sample(score) == [threat_score |-> score]

\* the corpora of the example: 100 normal samples below the threshold and
\* 50 covert samples above it
ExampleNormal == [i \in 1..100 |-> Sample(Rat(500, 1))]
ExampleCovert == [i \in 1..50 |-> Sample(Rat(1500, 1))]

Corpora == {[i \in 1..Len(q) |-> Sample(q[i])] : q \in SeqsOf(CorpusScores, 0, MaxCorpus)}

\* analyze_combined_datasets with the default label (positive) for the
\* normal samples too
analyze_combined_datasets_default_label(covert, normal) ==
    LET from_normal == [i \in 1..Len(normal) |->
                           classify_detection(normal[i].threat_score, TRUE)]
        from_covert == [i \in 1..Len(covert) |->
                           classify_detection(covert[i].threat_score, TRUE)]
        combined_classifications == from_normal \o from_covert
        combined_scores == [i \in 1..Len(normal) |-> normal[i].threat_score]
                           \o [i \in 1..Len(covert) |-> covert[i].threat_score]
        combined_metrics == calculate_detection_metrics(combined_classifications)
    IN [status |-> combined_metrics.status,
        combined_classifications |-> combined_classifications,
        combined_metrics |-> combined_metrics,
        combined_scores |-> combined_scores]

\* normal samples are classified with ground truth negative, then covert
\* samples with ground truth positive, and the metrics are those of the
\* concatenated list
analyze_combined_datasets(covert, normal) ==
    LET from_normal == [i \in 1..Len(normal) |->
                           classify_detection(normal[i].threat_score, FALSE)]
        from_covert == [i \in 1..Len(covert) |->
                           classify_detection(covert[i].threat_score, TRUE)]
        combined_classifications == from_normal \o from_covert
        combined_scores == [i \in 1..Len(normal) |-> normal[i].threat_score]
                           \o [i \in 1..Len(covert) |-> covert[i].threat_score]
        combined_metrics == calculate_detection_metrics(combined_classifications)
    IN [status |-> combined_metrics.status,
        combined_classifications |-> combined_classifications,
        combined_metrics |-> combined_metrics,
        combined_scores |-> combined_scores]

AnalyzeCombinedDatasets ==
    /\ combined = [status |-> "pending"]
    /\ combined' = analyze_combined_datasets(covert_data, normal_data)
    /\ UNCHANGED <<covert_data, normal_data, seqVars, clsVars, metVars, estVars, capVars, p2Vars, p3Vars, effVars, sumVars, impVars, rawVars, runVars, rcvVars, anaVars>>

InitCombined ==
    /\ \/ covert_data \in Corpora /\ normal_data \in Corpora
       \/ covert_data = ExampleCovert /\ normal_data = ExampleNormal
    /\ combined = [status |-> "pending"]
    /\ IdleSeq
    /\ IdleClassify
    /\ IdleMetrics
    /\ IdleEstimate
    /\ IdleCapacity
    /\ IdlePhase2
    /\ IdlePhase3
    /\ IdleEffectiveness
    /\ IdleSummary
    /\ IdleImpact
    /\ IdleRaw
    /\ IdleRun
    /\ IdleReceiver
    /\ IdleAnalysis

NextCombined == AnalyzeCombinedDatasets

SpecCombined == InitCombined /\ [][NextCombined]_vars

IsOne(m) == m.num = m.den

\* every normal sample scores at or below 1000, every covert sample above
\* it, and there is a covert sample
Separated ==
    /\ \A i \in 1..Len(normal_data) :
          normal_data[i].threat_score.num <= 1000 * normal_data[i].threat_score.den
    /\ \A i \in 1..Len(covert_data) :
          covert_data[i].threat_score.num > 1000 * covert_data[i].threat_score.den
    /\ Len(covert_data) >= 1

\* C10: on a corpus the threshold separates, with at least one positive
\* sample, the combined metrics have FP = FN = 0 and Accuracy, Precision and
\* Recall equal to 1.
C10_SeparatedCorpusIsPerfect ==
    (combined.status \notin {"idle", "pending"} /\ Separated) =>
        /\ combined.status = "ok"
        /\ combined.combined_metrics.FP = 0
        /\ combined.combined_metrics.FN = 0
        /\ IsOne(combined.combined_metrics.Accuracy)
        /\ IsOne(combined.combined_metrics.Precision)
        /\ IsOne(combined.combined_metrics.Recall)

\* the example corpus: 100 negatives, 50 positives, all three metrics 1.0
C10_Witness ==
    /\ combined.status = "ok"
    /\ normal_data = ExampleNormal
    /\ covert_data = ExampleCovert
    /\ combined.combined_metrics.TN = 100
    /\ combined.combined_metrics.TP = 50
    /\ combined.combined_metrics.Accuracy = FloatVal(1, 1)
    /\ combined.combined_metrics.Precision = FloatVal(1, 1)
    /\ combined.combined_metrics.Recall = FloatVal(1, 1)

----------------------------------------------------------------------------
(* calculate_stats_and_ci (phase2, phase3 and phase4 each define a copy) *)

MaxSamples == 3   \* length of the sample list
MaxSample == 2    \* samples are the halves between -MaxSample and MaxSample

Samples == {Rat(h, 2) : h \in (-2 * MaxSample)..(2 * MaxSample)}

Z_SCORE == Rat(196, 100)

\* square roots below 100 are taken to two decimal places, larger ones to
\* the unit, rounded down
SqrtScale == 100

\* the largest r in lo..hi with r * r <= n (lo * lo <= n < (hi + 1) * (hi + 1))
RECURSIVE ISqrtIn(_, _, _)
ISqrtIn(n, lo, hi) ==
    IF lo = hi THEN lo
    ELSE LET mid == (lo + hi + 1) \div 2
         IN IF mid * mid <= n THEN ISqrtIn(n, mid, hi) ELSE ISqrtIn(n, lo, mid - 1)

ISqrt(n) == ISqrtIn(n, 0, IF n < 46340 THEN n ELSE 46340)

\* math.sqrt / np.sqrt of a non-negative number
PySqrt(v) ==
    LET q == v.num \div v.den
        r == v.num % v.den
        scale == IF q < 10000 THEN SqrtScale ELSE 1
    IN Rat(ISqrt(q * scale * scale + (r * scale * scale) \div v.den), scale)

RECURSIVE PySum(_)
PySum(list) ==
    IF Len(list) = 0 THEN IntVal(0) ELSE PyAdd(list[1], PySum(Tail(list)))

\* statistics.mean of a non-empty list
statistics_mean(list) == PyDiv(PySum(list), IntVal(Len(list)))

\* statistics.stdev of a list of at least two values: the square root of
\* the sum of squared deviations from the mean over n - 1
statistics_stdev(list) ==
    LET m == statistics_mean(list)
        dev2 == [i \in 1..Len(list) |-> PyMul(PySub(list[i], m), PySub(list[i], m))]
    IN PySqrt(PyDiv(PySum(dev2), IntVal(Len(list) - 1)))

\* max(0, v): the int 0 unless v is greater
Max0(v) == IF PyGt(v, IntVal(0)) THEN v ELSE IntVal(0)

\* the phase2 copy with the two bounds exchanged
phase2_calculate_stats_and_ci_swapped(list) ==
    LET n == Len(list) IN
    IF n < 2
    THEN IF n = 1
         THEN [mean |-> statistics_mean(list), lower |-> PyNone, upper |-> PyNone]
         ELSE [mean |-> PyNone, lower |-> PyNone, upper |-> PyNone]
    ELSE LET mean == statistics_mean(list)
             std_dev == statistics_stdev(list)
             margin_of_error == PyMul(Z_SCORE, PyDiv(std_dev, PySqrt(IntVal(n))))
             lower_bound == PyAdd(mean, margin_of_error)
             upper_bound == PySub(mean, margin_of_error)
         IN [mean |-> mean, lower |-> Max0(lower_bound), upper |-> upper_bound]

phase2_calculate_stats_and_ci(list) ==
    LET n == Len(list) IN
    IF n < 2
    THEN IF n = 1
         THEN [mean |-> statistics_mean(list), lower |-> PyNone, upper |-> PyNone]
         ELSE [mean |-> PyNone, lower |-> PyNone, upper |-> PyNone]
    ELSE LET mean == statistics_mean(list)
             std_dev == statistics_stdev(list)
             margin_of_error == PyMul(Z_SCORE, PyDiv(std_dev, PySqrt(IntVal(n))))
             lower_bound == PySub(mean, margin_of_error)
             upper_bound == PyAdd(mean, margin_of_error)
         IN [mean |-> mean, lower |-> Max0(lower_bound), upper |-> upper_bound]

\* the phase3 copy taking two samples for too few
phase3_calculate_stats_and_ci_n_le_2(list) ==
    LET n == Len(list) IN
    IF n <= 2
    THEN IF n = 1
         THEN [mean |-> statistics_mean(list), lower |-> PyNone, upper |-> PyNone]
         ELSE [mean |-> PyNone, lower |-> PyNone, upper |-> PyNone]
    ELSE LET mean == statistics_mean(list)
             std_dev == statistics_stdev(list)
             margin_of_error == PyMul(Z_SCORE, PyDiv(std_dev, PySqrt(IntVal(n))))
             lower_bound == PySub(mean, margin_of_error)
             upper_bound == PyAdd(mean, margin_of_error)
         IN [mean |-> mean, lower |-> Max0(lower_bound), upper |-> upper_bound]

phase3_calculate_stats_and_ci(list) ==
    LET n == Len(list) IN
    IF n < 2
    THEN IF n = 1
         THEN [mean |-> statistics_mean(list), lower |-> PyNone, upper |-> PyNone]
         ELSE [mean |-> PyNone, lower |-> PyNone, upper |-> PyNone]
    ELSE LET mean == statistics_mean(list)
             std_dev == statistics_stdev(list)
             margin_of_error == PyMul(Z_SCORE, PyDiv(std_dev, PySqrt(IntVal(n))))
             lower_bound == PySub(mean, margin_of_error)
             upper_bound == PyAdd(mean, margin_of_error)
         IN [mean |-> mean, lower |-> Max0(lower_bound), upper |-> upper_bound]

\* the phase4 copy returning no mean for a single sample
phase4_calculate_stats_and_ci_no_single(list) ==
    LET n == Len(list) IN
    IF n < 2
    THEN [mean |-> PyNone, lower |-> PyNone, upper |-> PyNone]
    ELSE LET mean == statistics_mean(list)
             std_dev == statistics_stdev(list)
             margin_of_error == PyMul(Z_SCORE, PyDiv(std_dev, PySqrt(IntVal(n))))
         IN [mean |-> mean,
             lower |-> Max0(PySub(mean, margin_of_error)),
             upper |-> PyAdd(mean, margin_of_error)]

phase4_calculate_stats_and_ci(list) ==
    LET n == Len(list) IN
    IF n < 2
    THEN IF n = 1
         THEN [mean |-> statistics_mean(list), lower |-> PyNone, upper |-> PyNone]
         ELSE [mean |-> PyNone, lower |-> PyNone, upper |-> PyNone]
    ELSE LET mean == statistics_mean(list)
             std_dev == statistics_stdev(list)
             margin_of_error == PyMul(Z_SCORE, PyDiv(std_dev, PySqrt(IntVal(n))))
         IN [mean |-> mean,
             lower |-> Max0(PySub(mean, margin_of_error)),
             upper |-> PyAdd(mean, margin_of_error)]

Returned(fn, r) == [fn |-> fn, mean |-> r.mean, lower |-> r.lower, upper |-> r.upper]

Phase2Estimate ==
    /\ estimate = [fn |-> "pending"]
    /\ estimate' = Returned("phase2", phase2_calculate_stats_and_ci(data))
    /\ UNCHANGED <<data, seqVars, clsVars, metVars, cmbVars, capVars, p2Vars, p3Vars, effVars, sumVars, impVars, rawVars, runVars, rcvVars, anaVars>>

Phase3Estimate ==
    /\ estimate = [fn |-> "pending"]
    /\ estimate' = Returned("phase3", phase3_calculate_stats_and_ci(data))
    /\ UNCHANGED <<data, seqVars, clsVars, metVars, cmbVars, capVars, p2Vars, p3Vars, effVars, sumVars, impVars, rawVars, runVars, rcvVars, anaVars>>

Phase4Estimate ==
    /\ estimate = [fn |-> "pending"]
    /\ estimate' = Returned("phase4", phase4_calculate_stats_and_ci(data))
    /\ UNCHANGED <<data, seqVars, clsVars, metVars, cmbVars, capVars, p2Vars, p3Vars, effVars, sumVars, impVars, rawVars, runVars, rcvVars, anaVars>>

InitEstimate ==
    /\ data \in SeqsOf(Samples, 0, MaxSamples)
    /\ estimate = [fn |-> "pending"]
    /\ IdleSeq
    /\ IdleClassify
    /\ IdleMetrics
    /\ IdleCombined
    /\ IdleCapacity
    /\ IdlePhase2
    /\ IdlePhase3
    /\ IdleEffectiveness
    /\ IdleSummary
    /\ IdleImpact
    /\ IdleRaw
    /\ IdleRun
    /\ IdleReceiver
    /\ IdleAnalysis

NextEstimate == Phase2Estimate \/ Phase3Estimate \/ Phase4Estimate

SpecEstimate == InitEstimate /\ [][NextEstimate]_vars

Estimated == estimate.fn \in {"phase2", "phase3", "phase4"}

BothBounds == Estimated /\ estimate.lower # PyNone /\ estimate.upper # PyNone

\* C8 as stated: whenever both bounds are present, lower <= mean <= upper.
C8_Original ==
    BothBounds =>
        PyLe(estimate.lower, estimate.mean) /\ PyLe(estimate.mean, estimate.upper)

\* C8: whenever both bounds are present, mean <= upper, and lower <= mean
\* exactly when the mean is not negative (the lower bound of a negative
\* mean is the clamp 0).
C8_MeanWithinBoundsUnlessNegative ==
    BothBounds =>
        /\ PyLe(estimate.mean, estimate.upper)
        /\ PyLe(estimate.lower, estimate.mean) <=> PyLe(IntVal(0), estimate.mean)
        /\ PyLt(estimate.mean, IntVal(0)) => PyEq(estimate.lower, IntVal(0))

\* samples 1.5 and 2 in the phase2 copy: a proper interval above 0
C8_Witness ==
    /\ estimate.fn = "phase2"
    /\ data = <<FloatVal(3, 2), FloatVal(2, 1)>>
    /\ PyLt(IntVal(0), estimate.lower)
    /\ PyLt(estimate.lower, estimate.mean)
    /\ PyLt(estimate.mean, estimate.upper)

Identical == Len(data) >= 2 /\ \A i \in 1..Len(data) : data[i] = data[1]

\* C9 as stated: n >= 2 identical samples x give (x, x, x), for every x.
C9_Original ==
    (estimate.fn = "phase3" /\ Identical) =>
        /\ PyEq(estimate.mean, data[1])
        /\ PyEq(estimate.lower, data[1])
        /\ PyEq(estimate.upper, data[1])

\* C9: n >= 2 identical samples x give mean = upper = x, and lower = x for
\* x >= 0 but lower = 0 for x < 0.
C9_IdenticalSamplesCollapse ==
    (Estimated /\ Identical) =>
        /\ estimate.lower # PyNone /\ estimate.upper # PyNone
        /\ PyEq(estimate.mean, data[1])
        /\ PyEq(estimate.upper, data[1])
        /\ PyLe(IntVal(0), data[1]) => PyEq(estimate.lower, data[1])
        /\ PyLt(data[1], IntVal(0)) => PyEq(estimate.lower, IntVal(0))

\* the phase3 copy on two samples equal to 1.5
C9_Witness ==
    /\ estimate.fn = "phase3"
    /\ data = <<FloatVal(3, 2), FloatVal(3, 2)>>
    /\ estimate.mean = FloatVal(3, 2)
    /\ PyEq(estimate.lower, FloatVal(3, 2))
    /\ PyEq(estimate.upper, FloatVal(3, 2))

----------------------------------------------------------------------------
(* phase2: calculate_capacity; phase4: calculate_capacity_with_time_diff *)

MaxChunks == 1   \* the non-zero "Number of chunks received" value drawn

NS_PER_SEC == 1000000000

\* a call: the record fields the arguments are taken from; the time is the
\* reassembly time or the time difference, in steps of 0.1 s
CapacityCalls ==
    [fn : {"pending"},
     message_size : {IntVal(b) : b \in 0..MaxSize},
     chunks_received : {IntVal(c) : c \in 0..MaxChunks},
     time_ns : {IntVal(t * 100000000) : t \in (-MaxTime)..MaxTime},
     correctness : {PyTrue, PyFalse}]

\* what a call returns and how many divisions it evaluated
Rate(value, divisions) == [value |-> value, divisions |-> divisions]

\* calculate_capacity without the test of the correctness flag
calculate_capacity_ungated(message_size, reassembly_time_ns, correctness) ==
    IF PyLe(reassembly_time_ns, IntVal(0))
    THEN Rate(FloatVal(0, 1), 0)
    ELSE LET time_in_seconds == PyDiv(reassembly_time_ns, IntVal(NS_PER_SEC))
         IN Rate(PyDiv(message_size, time_in_seconds), 2)

calculate_capacity(message_size, reassembly_time_ns, correctness) ==
    IF correctness = PyFalse
    THEN Rate(FloatVal(0, 1), 0)
    ELSE IF PyLe(reassembly_time_ns, IntVal(0))
         THEN Rate(FloatVal(0, 1), 0)
         ELSE LET time_in_seconds == PyDiv(reassembly_time_ns, IntVal(NS_PER_SEC))
              IN Rate(PyDiv(message_size, time_in_seconds), 2)

calculate_capacity_with_time_diff(message_size, time_diff_ns, correctness) ==
    IF ~Truthy(correctness) \/ PyLe(time_diff_ns, IntVal(0))
    THEN Rate(FloatVal(0, 1), 0)
    ELSE Rate(PyDiv(message_size, PyDiv(time_diff_ns, IntVal(NS_PER_SEC))), 2)

Called(fn, r) == [fn |-> fn, value |-> r.value, divisions |-> r.divisions]

\* phase2 line 237: the byte capacity of a record
CalculateCapacity ==
    /\ cap_args.fn = "pending"
    /\ cap_result = [fn |-> "pending"]
    /\ cap_result' = Called("capacity",
                         calculate_capacity(cap_args.message_size, cap_args.time_ns,
                                            cap_args.correctness))
    /\ UNCHANGED <<cap_args, seqVars, clsVars, metVars, cmbVars, estVars, p2Vars, p3Vars, effVars, sumVars, impVars, rawVars, runVars, rcvVars, anaVars>>

\* phase2 line 243: the chunk rate of a record
CalculateChunkRate ==
    /\ cap_args.fn = "pending"
    /\ cap_result = [fn |-> "pending"]
    /\ cap_result' = Called("chunk_rate",
                         calculate_capacity(cap_args.chunks_received, cap_args.time_ns,
                                            cap_args.correctness))
    /\ UNCHANGED <<cap_args, seqVars, clsVars, metVars, cmbVars, estVars, p2Vars, p3Vars, effVars, sumVars, impVars, rawVars, runVars, rcvVars, anaVars>>

\* phase4 line 279/446: the capacity of a record over its time difference
CalculateCapacityWithTimeDiff ==
    /\ cap_args.fn = "pending"
    /\ cap_result = [fn |-> "pending"]
    /\ cap_result' = Called("capacity_with_time_diff",
                         calculate_capacity_with_time_diff(cap_args.message_size,
                                                           cap_args.time_ns,
                                                           cap_args.correctness))
    /\ UNCHANGED <<cap_args, seqVars, clsVars, metVars, cmbVars, estVars, p2Vars, p3Vars, effVars, sumVars, impVars, rawVars, runVars, rcvVars, anaVars>>

InitCapacity ==
    /\ cap_args \in CapacityCalls
    /\ cap_result = [fn |-> "pending"]
    /\ IdleSeq
    /\ IdleClassify
    /\ IdleMetrics
    /\ IdleCombined
    /\ IdleEstimate
    /\ IdlePhase2
    /\ IdlePhase3
    /\ IdleEffectiveness
    /\ IdleSummary
    /\ IdleImpact
    /\ IdleRaw
    /\ IdleRun
    /\ IdleReceiver
    /\ IdleAnalysis

NextCapacity == CalculateCapacity \/ CalculateChunkRate \/ CalculateCapacityWithTimeDiff

SpecCapacity == InitCapacity /\ [][NextCapacity]_vars

RateDerived == cap_result.fn \in {"capacity", "chunk_rate", "capacity_with_time_diff"}

\* C5: for a record with correctness = false the byte capacity, the
\* capacity over the time difference and the chunk rate are exactly 0,
\* whatever the sizes and times, and no division is evaluated.
C5_IncorrectRecordHasZeroRate ==
    (RateDerived /\ cap_args.correctness = PyFalse) =>
        /\ cap_result.value = FloatVal(0, 1)
        /\ cap_result.divisions = 0

\* an incorrect record with a message, a chunk and a positive time
C5_Witness ==
    /\ cap_result.fn = "capacity"
    /\ cap_args.correctness = PyFalse
    /\ cap_args.message_size.num > 0
    /\ cap_args.chunks_received.num > 0
    /\ cap_args.time_ns.num > 0
    /\ cap_result.value = FloatVal(0, 1)

----------------------------------------------------------------------------
(* phase2: parse_covert_channel_data and one iteration of the main loop *)

MaxEntries == 2   \* blocks in one phase2 log

Fields == {"reassembly_time_ns", "chunks_received", "message_size", "correctness"}

\* A block of a phase2 log, by the fields whose pattern matches in it.
SenderBlocks ==
    [reassembly_time_ns : {Absent, IntVal(0), IntVal(MaxTime * 100000000)},
     chunks_received : {Absent, IntVal(0), IntVal(MaxChunks)},
     message_size : {Absent, IntVal(MaxSize)},
     correctness : {Absent, PyTrue, PyFalse}]

\* a file of the filenames list: whether open() finds it, whether its label
\* contains "Typed", and its non-blank entries
SenderFile(found, typed, entries) ==
    [found |-> found, typed |-> typed, entries |-> entries]

\* open() is not guarded: a missing file raises; a file without entries
\* gives None; otherwise one dict per entry with the matched fields
phase2_parse_covert_channel_data(file) ==
    IF ~file.found THEN [status |-> "FileNotFoundError", data |-> <<>>]
    ELSE IF Len(file.entries) = 0 THEN [status |-> "None", data |-> <<>>]
    ELSE [status |-> "ok", data |-> file.entries]

\* a subscript data[f], f in fields, raises KeyError for some record
KeyErrorIn(recs, fields) ==
    \E i \in 1..Len(recs) : \E f \in fields : recs[i][f] = Absent

\* lines 236-239
capacity_values_bps(recs) ==
    [i \in 1..Len(recs) |->
        calculate_capacity(recs[i].message_size, recs[i].reassembly_time_ns,
                           recs[i].correctness).value]

\* lines 242-245
chunk_capacity_values(recs) ==
    [i \in 1..Len(recs) |->
        calculate_capacity(recs[i].chunks_received, recs[i].reassembly_time_ns,
                           recs[i].correctness).value]

\* lines 248-251
byte_per_chunk_values(recs) ==
    [i \in 1..Len(recs) |-> PyDiv(recs[i].message_size, recs[i].chunks_received)]

\* the correction applied whatever the label: a mutation that drops the
\* test of line 254
CorrectedWhateverLabel(values, typed) ==
    [i \in 1..Len(values) |-> PyDiv(values[i], IntVal(4))]

\* lines 254-262: the correction of a "Typed" label
Corrected(values, typed) ==
    IF typed THEN [i \in 1..Len(values) |-> PyDiv(values[i], IntVal(4))] ELSE values

\* lines 280-297: the bounds fall back to the mean when they are None
ResultEntry(est) ==
    [mean |-> est.mean,
     lower |-> IF est.lower # PyNone THEN est.lower ELSE est.mean,
     upper |-> IF est.upper # PyNone THEN est.upper ELSE est.mean]

NoEntry == [mean |-> PyNone, lower |-> PyNone, upper |-> PyNone]

\* the iteration ended by an exception
Failed(exception) ==
    [status |-> exception,
     capacity_values_bps |-> <<>>, chunk_capacity_values |-> <<>>,
     byte_per_chunk_values |-> <<>>,
     capacity_results |-> NoEntry, chunks_per_second_results |-> NoEntry,
     byte_per_chunk_results |-> NoEntry,
     chunk_results |-> PyNone, correctness_results |-> PyNone]

\* one iteration of the loop over filenames (lines 229-312)
phase2_main_iteration(file) ==
    LET parsed == phase2_parse_covert_channel_data(file)
        recs == parsed.data
    IN IF parsed.status = "FileNotFoundError" THEN Failed("FileNotFoundError")
       ELSE IF parsed.status = "None" THEN Failed("TypeError")
       ELSE IF KeyErrorIn(recs, {"message_size", "reassembly_time_ns", "correctness"})
            THEN Failed("KeyError")
       ELSE IF KeyErrorIn(recs, {"chunks_received"}) THEN Failed("KeyError")
       ELSE IF \E i \in 1..Len(recs) : recs[i].chunks_received.num = 0
            THEN Failed("ZeroDivisionError")
       ELSE LET caps == capacity_values_bps(recs)
                rates == Corrected(chunk_capacity_values(recs), file.typed)
                bpc == Corrected(byte_per_chunk_values(recs), file.typed)
            IN [status |-> "ok",
                capacity_values_bps |-> caps,
                chunk_capacity_values |-> rates,
                byte_per_chunk_values |-> bpc,
                capacity_results |-> ResultEntry(phase2_calculate_stats_and_ci(caps)),
                chunks_per_second_results |->
                    ResultEntry(phase2_calculate_stats_and_ci(rates)),
                byte_per_chunk_results |->
                    ResultEntry(phase2_calculate_stats_and_ci(bpc)),
                chunk_results |->
                    PyDiv(PySum([i \in 1..Len(recs) |-> recs[i].chunks_received]),
                          IntVal(Len(recs))),
                correctness_results |->
                    PyDiv(PySum([i \in 1..Len(recs) |-> recs[i].correctness]),
                          IntVal(Len(recs)))]

ProcessSenderFile ==
    /\ condition = [status |-> "pending"]
    /\ condition' = phase2_main_iteration(sender_file)
    /\ UNCHANGED <<sender_file, seqVars, clsVars, metVars, cmbVars, estVars, capVars, p3Vars, effVars, sumVars, impVars, rawVars, runVars, rcvVars, anaVars>>

InitPhase2 ==
    /\ \/ sender_file = SenderFile(FALSE, FALSE, <<>>)
       \/ \E typed \in BOOLEAN : \E n \in 0..MaxEntries :
              \E e \in [1..n -> SenderBlocks] :
                  sender_file = SenderFile(TRUE, typed, e)
    /\ condition = [status |-> "pending"]
    /\ IdleSeq
    /\ IdleClassify
    /\ IdleMetrics
    /\ IdleCombined
    /\ IdleEstimate
    /\ IdleCapacity
    /\ IdlePhase3
    /\ IdleEffectiveness
    /\ IdleSummary
    /\ IdleImpact
    /\ IdleRaw
    /\ IdleRun
    /\ IdleReceiver
    /\ IdleAnalysis

NextPhase2 == ProcessSenderFile

SpecPhase2 == InitPhase2 /\ [][NextPhase2]_vars

Processed == condition.status \notin {"idle", "pending"}

\* the blocks of the file lack no field other than the reassembly time and
\* count at least one chunk
OtherwiseComplete ==
    /\ sender_file.found
    /\ \A i \in 1..Len(sender_file.entries) :
          /\ \A f \in Fields \ {"reassembly_time_ns"} : sender_file.entries[i][f] # Absent
          /\ sender_file.entries[i].chunks_received.num > 0

TimeMissingOrNonPositive(block) ==
    block.reassembly_time_ns = Absent \/ block.reassembly_time_ns.num <= 0

\* C6: for a record whose reassembly_time_ns is missing or not positive the
\* derived byte capacity and chunk rate are 0, and deriving the samples of
\* its condition raises nothing.  (Stated for files whose blocks are
\* complete in every other respect.)
C6_MissingOrNonPositiveTimeGivesZero ==
    (Processed /\ OtherwiseComplete) =>
        \A i \in 1..Len(sender_file.entries) :
            TimeMissingOrNonPositive(sender_file.entries[i]) =>
                /\ condition.status = "ok"
                /\ condition.capacity_values_bps[i].num = 0
                /\ condition.chunk_capacity_values[i].num = 0

\* every block of the file matched all four patterns
AllFieldsMatched ==
    /\ sender_file.found
    /\ Len(sender_file.entries) > 0
    /\ \A i \in 1..Len(sender_file.entries) :
          \A f \in Fields : sender_file.entries[i][f] # Absent

\* the blocks that count at least one chunk, in file order
WithChunks == SelectSeq(sender_file.entries, LAMBDA b : b.chunks_received.num > 0)

\* C24: bytes_per_chunk = message_size / chunks_received is derived for the
\* records with chunks_received > 0 only: a record with chunks_received = 0
\* gives no sample and deriving the samples of its condition raises nothing.
C24_ZeroChunksExcludedFromBytesPerChunk ==
    (Processed /\ AllFieldsMatched) =>
        /\ condition.status = "ok"
        /\ Len(condition.byte_per_chunk_values) = Len(WithChunks)
        /\ \A i \in 1..Len(WithChunks) :
              PyEq(PyMul(condition.byte_per_chunk_values[i],
                         IntVal(IF sender_file.typed THEN 4 ELSE 1)),
                   PyDiv(WithChunks[i].message_size, WithChunks[i].chunks_received))

\* C25: the chunk-rate and bytes-per-chunk samples of a condition are the
\* derived values divided by 4 when its label contains "Typed" and the
\* derived values themselves when it does not; its byte-capacity samples are
\* the derived values under either label.
C25_TypedCorrectionDividesByFour ==
    (Processed /\ condition.status = "ok") =>
        LET recs == sender_file.entries
            factor == IntVal(IF sender_file.typed THEN 4 ELSE 1)
        IN /\ Len(condition.capacity_values_bps) = Len(recs)
           /\ Len(condition.chunk_capacity_values) = Len(recs)
           /\ Len(condition.byte_per_chunk_values) = Len(recs)
           /\ \A i \in 1..Len(recs) :
                 /\ condition.capacity_values_bps[i] =
                      calculate_capacity(recs[i].message_size, recs[i].reassembly_time_ns,
                                         recs[i].correctness).value
                 /\ PyEq(PyMul(condition.chunk_capacity_values[i], factor),
                         calculate_capacity(recs[i].chunks_received,
                                            recs[i].reassembly_time_ns,
                                            recs[i].correctness).value)
                 /\ PyEq(PyMul(condition.byte_per_chunk_values[i], factor),
                         PyDiv(recs[i].message_size, recs[i].chunks_received))

\* a "Typed" condition with a correct record: its chunk rate and its bytes
\* per chunk are a quarter of the derived values, its byte capacity is not
C25_Witness ==
    /\ Processed
    /\ condition.status = "ok"
    /\ sender_file.typed
    /\ \E i \in 1..Len(sender_file.entries) :
          LET b == sender_file.entries[i]
          IN /\ condition.capacity_values_bps[i].num > 0
             /\ condition.chunk_capacity_values[i].num > 0
             /\ PyEq(PyMul(condition.chunk_capacity_values[i], IntVal(4)),
                     PyDiv(b.chunks_received,
                           PyDiv(b.reassembly_time_ns, IntVal(NS_PER_SEC))))
             /\ PyEq(PyMul(condition.byte_per_chunk_values[i], IntVal(4)),
                     PyDiv(b.message_size, b.chunks_received))
             /\ PyEq(condition.capacity_values_bps[i],
                     PyDiv(b.message_size,
                           PyDiv(b.reassembly_time_ns, IntVal(NS_PER_SEC))))

----------------------------------------------------------------------------
(* phase3: parse_dns_threat_data, validate_data_files and the main block *)

MaxLog == 2   \* blocks in one phase3 log

\* the scores written in a log: just below, at and just above the threshold
LogScores ==
    {Rat(DETECTION_THRESHOLD - 1, 1), Rat(DETECTION_THRESHOLD, 1),
     Rat(2 * DETECTION_THRESHOLD + 1, 2)}

\* a "Score: " match that float() rejects, such as "1.2.3" or "."
Malformed == [kind |-> "malformed", num |-> 0, den |-> 1]

\* A block of a phase3 log, by what follows "Score: " in it (Absent when
\* the pattern does not match).
LogEntries == {Absent, Malformed} \cup LogScores

\* a log: whether open() finds it, and its non-blank blocks
DnsLog(found, entries) == [found |-> found, entries |-> entries]

IsScore(e) == e.kind = "float"

\* open() is not guarded; float() raises ValueError on a malformed match;
\* a block is appended only when it holds a score
parse_dns_threat_data(file) ==
    IF ~file.found THEN [status |-> "FileNotFoundError", data |-> <<>>]
    ELSE IF \E i \in 1..Len(file.entries) : file.entries[i] = Malformed
         THEN [status |-> "ValueError", data |-> <<>>]
    ELSE LET scored == SelectSeq(file.entries, IsScore)
         IN [status |-> "ok", data |-> [i \in 1..Len(scored) |-> Sample(scored[i])]]

\* validate_data_files testing the covert corpus only
validate_data_files_covert_only(covert, normal) ==
    IF Len(covert) = 0 THEN "exit(1)" ELSE "ok"

\* exit(1) when either corpus is empty
validate_data_files(covert, normal) ==
    IF Len(covert) = 0 THEN "exit(1)"
    ELSE IF Len(normal) = 0 THEN "exit(1)"
    ELSE "ok"

extract_threat_scores(data_list) ==
    [i \in 1..Len(data_list) |-> data_list[i].threat_score]

\* line 499 with the label of the covert corpus
normal_classifications_positive(normal_scores) ==
    [i \in 1..Len(normal_scores) |-> classify_detection(normal_scores[i], TRUE)]

\* line 492
pure_covert_classifications(covert_scores) ==
    [i \in 1..Len(covert_scores) |-> classify_detection(covert_scores[i], TRUE)]

\* line 499
normal_classifications(normal_scores) ==
    [i \in 1..Len(normal_scores) |-> classify_detection(normal_scores[i], FALSE)]

\* the estimate of the scores; formatting a None mean with :.1f raises
print_statistics_summary(scores) ==
    LET est == phase3_calculate_stats_and_ci(scores)
    IN [fn |-> IF est.mean = PyNone THEN "TypeError" ELSE "ok",
        mean |-> est.mean, lower |-> est.lower, upper |-> est.upper]

\* line 479
ParseCovertLog ==
    /\ p3_pc = "parse_covert"
    /\ LET r == parse_dns_threat_data(covert_log)
       IN /\ p3' = [p3 EXCEPT !.covert_data = r.data]
          /\ p3_pc' = IF r.status = "ok" THEN "parse_normal" ELSE r.status
    /\ UNCHANGED <<covert_log, normal_log, seqVars, clsVars, metVars, cmbVars, estVars, capVars, p2Vars, effVars, sumVars, impVars, rawVars, runVars, rcvVars, anaVars>>

\* line 480
ParseNormalLog ==
    /\ p3_pc = "parse_normal"
    /\ LET r == parse_dns_threat_data(normal_log)
       IN /\ p3' = [p3 EXCEPT !.normal_data = r.data]
          /\ p3_pc' = IF r.status = "ok" THEN "validate" ELSE r.status
    /\ UNCHANGED <<covert_log, normal_log, seqVars, clsVars, metVars, cmbVars, estVars, capVars, p2Vars, effVars, sumVars, impVars, rawVars, runVars, rcvVars, anaVars>>

\* line 481
ValidateDataFiles ==
    /\ p3_pc = "validate"
    /\ p3_pc' = IF validate_data_files(p3.covert_data, p3.normal_data) = "ok"
                THEN "pure_covert" ELSE "exit(1)"
    /\ UNCHANGED <<p3, covert_log, normal_log, seqVars, clsVars, metVars, cmbVars, estVars, capVars, p2Vars, effVars, sumVars, impVars, rawVars, runVars, rcvVars, anaVars>>

\* lines 487, 492-493
PureCovertAnalysis ==
    /\ p3_pc = "pure_covert"
    /\ LET list == pure_covert_classifications(extract_threat_scores(p3.covert_data))
       IN p3' = [p3 EXCEPT !.pure_covert_classifications = list,
                           !.pure_covert_metrics = calculate_detection_metrics(list),
                           !.classified = @ + Len(list)]
    /\ p3_pc' = "normal"
    /\ UNCHANGED <<covert_log, normal_log, seqVars, clsVars, metVars, cmbVars, estVars, capVars, p2Vars, effVars, sumVars, impVars, rawVars, runVars, rcvVars, anaVars>>

\* lines 488, 499-500
NormalTrafficAnalysis ==
    /\ p3_pc = "normal"
    /\ LET list == normal_classifications(extract_threat_scores(p3.normal_data))
       IN p3' = [p3 EXCEPT !.normal_classifications = list,
                           !.normal_metrics = calculate_detection_metrics(list),
                           !.classified = @ + Len(list)]
    /\ p3_pc' = "combined"
    /\ UNCHANGED <<covert_log, normal_log, seqVars, clsVars, metVars, cmbVars, estVars, capVars, p2Vars, effVars, sumVars, impVars, rawVars, runVars, rcvVars, anaVars>>

\* line 504
CombinedAnalysis ==
    /\ p3_pc = "combined"
    /\ LET r == analyze_combined_datasets(p3.covert_data, p3.normal_data)
       IN p3' = [p3 EXCEPT !.combined_metrics = r.combined_metrics,
                           !.combined_scores = r.combined_scores,
                           !.classified = @ + Len(r.combined_classifications)]
    /\ p3_pc' = "statistics"
    /\ UNCHANGED <<covert_log, normal_log, seqVars, clsVars, metVars, cmbVars, estVars, capVars, p2Vars, effVars, sumVars, impVars, rawVars, runVars, rcvVars, anaVars>>

\* lines 508-509
StatisticsComparison ==
    /\ p3_pc = "statistics"
    /\ LET c == print_statistics_summary(extract_threat_scores(p3.covert_data))
           n == print_statistics_summary(extract_threat_scores(p3.normal_data))
       IN /\ p3' = [p3 EXCEPT !.covert_statistics = c,
                              !.normal_statistics =
                                  IF c.fn = "ok" THEN n ELSE [fn |-> "idle"]]
          /\ p3_pc' = IF c.fn # "ok" THEN c.fn
                      ELSE IF n.fn # "ok" THEN n.fn
                      ELSE "done"
    /\ UNCHANGED <<covert_log, normal_log, seqVars, clsVars, metVars, cmbVars, estVars, capVars, p2Vars, effVars, sumVars, impVars, rawVars, runVars, rcvVars, anaVars>>

InitPhase3 ==
    /\ \/ covert_log = DnsLog(FALSE, <<>>)
       \/ \E n \in 0..MaxLog : \E e \in [1..n -> LogEntries] :
              covert_log = DnsLog(TRUE, e)
    /\ \/ normal_log = DnsLog(FALSE, <<>>)
       \/ \E n \in 0..MaxLog : \E e \in [1..n -> LogEntries] :
              normal_log = DnsLog(TRUE, e)
    /\ p3_pc = "parse_covert"
    /\ p3 = Phase3Unassigned
    /\ IdleSeq
    /\ IdleClassify
    /\ IdleMetrics
    /\ IdleCombined
    /\ IdleEstimate
    /\ IdleCapacity
    /\ IdlePhase2
    /\ IdleEffectiveness
    /\ IdleSummary
    /\ IdleImpact
    /\ IdleRaw
    /\ IdleRun
    /\ IdleReceiver
    /\ IdleAnalysis

NextPhase3 ==
    \/ ParseCovertLog
    \/ ParseNormalLog
    \/ ValidateDataFiles
    \/ PureCovertAnalysis
    \/ NormalTrafficAnalysis
    \/ CombinedAnalysis
    \/ StatisticsComparison

SpecPhase3 == InitPhase3 /\ [][NextPhase3]_vars

\* the combined analysis has run
Combined == p3.combined_metrics # NoMetrics

\* C11: the combined confusion matrix is the component-wise sum of the
\* matrices of the two corpora: TP and FN are those of the covert corpus,
\* FP and TN those of the normal corpus, the covert matrix has FP = TN = 0,
\* the normal matrix has TP = FN = 0 and so precision = recall = 0, and the
\* combined Total is |covert| + |normal|.
C11_CombinedIsSumOfCorpora ==
    Combined =>
        LET c == p3.pure_covert_metrics
            n == p3.normal_metrics
            b == p3.combined_metrics
        IN /\ b.TP = c.TP /\ b.FN = c.FN
           /\ b.FP = n.FP /\ b.TN = n.TN
           /\ c.FP = 0 /\ c.TN = 0
           /\ n.TP = 0 /\ n.FN = 0
           /\ PyEq(n.Precision, IntVal(0)) /\ PyEq(n.Recall, IntVal(0))
           /\ b.TP = c.TP + n.TP /\ b.FN = c.FN + n.FN
           /\ b.FP = c.FP + n.FP /\ b.TN = c.TN + n.TN
           /\ c.Total = Len(p3.covert_data)
           /\ n.Total = Len(p3.normal_data)
           /\ b.Total = Len(p3.covert_data) + Len(p3.normal_data)

\* two covert and two normal samples, one of each above the threshold: the
\* combined matrix has one sample in every cell
C11_Witness ==
    /\ p3_pc = "done"
    /\ Len(p3.covert_data) = 2 /\ Len(p3.normal_data) = 2
    /\ p3.pure_covert_metrics.TP = 1 /\ p3.pure_covert_metrics.FN = 1
    /\ p3.normal_metrics.FP = 1 /\ p3.normal_metrics.TN = 1
    /\ p3.combined_metrics.TP = 1 /\ p3.combined_metrics.FN = 1
    /\ p3.combined_metrics.FP = 1 /\ p3.combined_metrics.TN = 1
    /\ p3.combined_metrics.Total = 4

\* a corpus of the main block has no record
EmptyCorpus == Len(p3.covert_data) = 0 \/ Len(p3.normal_data) = 0

\* a classification, a metric or a statistic has been computed
Computed ==
    \/ p3.classified > 0
    \/ p3.pure_covert_metrics # NoMetrics
    \/ p3.normal_metrics # NoMetrics
    \/ p3.combined_metrics # NoMetrics
    \/ p3.covert_statistics # [fn |-> "idle"]
    \/ p3.normal_statistics # [fn |-> "idle"]

\* C20: when both logs are parsed and the covert or the normal corpus has
\* no record, validate_data_files ends the run with exit(1) and nothing has
\* been classified or computed; the statements after it run only with both
\* corpora non-empty.
C20_EmptyCorpusIsFatal ==
    /\ [](p3_pc = "exit(1)" => (EmptyCorpus /\ ~Computed))
    /\ [](p3_pc \in {"pure_covert", "normal", "combined", "statistics", "done", "TypeError"}
            => ~EmptyCorpus)
    /\ [](Computed => ~EmptyCorpus)
    /\ [][(p3_pc = "validate" /\ EmptyCorpus) => (p3_pc' = "exit(1)" /\ p3' = p3)]_vars

\* a covert corpus with a record and a normal log whose blocks hold no
\* score: the run ends in validate_data_files
C20_Witness ==
    /\ p3_pc = "exit(1)"
    /\ Len(p3.covert_data) > 0
    /\ Len(normal_log.entries) > 0
    /\ Len(p3.normal_data) = 0
    /\ p3.classified = 0

----------------------------------------------------------------------------
(* phase4: calculate_mitigation_effectiveness *)

MaxCapacity == 3   \* capacities are the halves between -MaxCapacity and MaxCapacity

\* mean capacities: the halves around 0 and those of the example
Capacities ==
    {Rat(h, 2) : h \in (-2 * MaxCapacity)..(2 * MaxCapacity)}
    \cup {Rat(1000, 1), Rat(120, 1)}

\* max(0.0, v): the float 0.0 unless v is greater
MaxFloat0(v) == IF PyGt(v, FloatVal(0, 1)) THEN v ELSE FloatVal(0, 1)

\* the percentage reduction itself
Reduction(baseline, mitigated) ==
    PyMul(PyDiv(PySub(baseline, mitigated), baseline),
          IntVal(100))

\* calculate_mitigation_effectiveness without max(0.0, ...)
calculate_mitigation_effectiveness_unclamped(baseline, mitigated) ==
    IF PyEq(baseline, IntVal(0))
    THEN FloatVal(0, 1)
    ELSE Reduction(baseline, mitigated)

calculate_mitigation_effectiveness(baseline, mitigated) ==
    IF PyEq(baseline, IntVal(0))
    THEN FloatVal(0, 1)
    ELSE MaxFloat0(Reduction(baseline, mitigated))

CalculateMitigationEffectiveness ==
    /\ eff_args.fn = "pending"
    /\ eff_result = [fn |-> "pending"]
    /\ eff_result' =
           [fn |-> "returned",
            value |-> calculate_mitigation_effectiveness(eff_args.baseline_capacity,
                                                         eff_args.mitigated_capacity)]
    /\ UNCHANGED <<eff_args, seqVars, clsVars, metVars, cmbVars, estVars, capVars, p2Vars, p3Vars, sumVars, impVars, rawVars, runVars, rcvVars, anaVars>>

InitEffectiveness ==
    /\ eff_args \in [fn : {"pending"},
                     baseline_capacity : Capacities,
                     mitigated_capacity : Capacities]
    /\ eff_result = [fn |-> "pending"]
    /\ IdleSeq
    /\ IdleClassify
    /\ IdleMetrics
    /\ IdleCombined
    /\ IdleEstimate
    /\ IdleCapacity
    /\ IdlePhase2
    /\ IdlePhase3
    /\ IdleSummary
    /\ IdleImpact
    /\ IdleRaw
    /\ IdleRun
    /\ IdleReceiver
    /\ IdleAnalysis

NextEffectiveness == CalculateMitigationEffectiveness

SpecEffectiveness == InitEffectiveness /\ [][NextEffectiveness]_vars

\* C12: calculate_mitigation_effectiveness returns 0 for a baseline of 0
\* and max(0, (baseline - mitigated) / baseline * 100) otherwise, raising
\* nothing; for capacities that are not negative the result lies in
\* [0, 100] and is 0 whenever mitigated >= baseline.
C12_ReductionClampedAtZero ==
    eff_result.fn = "returned" =>
        LET b == eff_args.baseline_capacity
            m == eff_args.mitigated_capacity
            v == eff_result.value
        IN /\ v.kind = "float"
           /\ b.num = 0 => v.num = 0
           /\ b.num # 0 =>
                 \* v = max(0, (b - m) * 100 / b), cross-multiplied
                 LET n == (b.num * m.den - m.num * b.den) * 100 * b.den
                     d == b.den * m.den * b.num
                 IN IF (n > 0) = (d > 0) /\ n # 0
                    THEN v.num * d = n * v.den
                    ELSE v.num = 0
           /\ (b.num >= 0 /\ m.num >= 0) =>
                 /\ 0 <= v.num /\ v.num <= 100 * v.den
                 /\ PyLe(b, m) => v.num = 0

\* the example: baseline 1000, mitigated 120, reduction 88.0
C12_Witness ==
    /\ eff_result.fn = "returned"
    /\ eff_args.baseline_capacity = FloatVal(1000, 1)
    /\ eff_args.mitigated_capacity = FloatVal(120, 1)
    /\ eff_result.value = FloatVal(88, 1)

----------------------------------------------------------------------------
(* phase4: generate_summary_report and the baseline the main block gives it *)

BASELINE == "No Mitigation"

\* the keys of receiver_files
Strategies == {"No Mitigation", "Delay Mitigation", "Drop Mitigation"}

\* mean capacities of a condition: a capacity is never negative
MeanCapacities == {c \in Capacities : c.num >= 0}

\* an entry of receiver_results, by its key and its 'mean'
Result(strategy, mean) == [strategy |-> strategy, mean |-> mean]

\* line 565: receiver_results.get("No Mitigation", {}).get('mean', 0)
BaselineOf(results) ==
    IF \E i \in 1..Len(results) : results[i].strategy = BASELINE
    THEN results[CHOOSE i \in 1..Len(results) : results[i].strategy = BASELINE].mean
    ELSE IntVal(0)

\* lines 220-232: the effectiveness printed for each condition but the baseline
Overview(results, baseline) ==
    [i \in 1..Len(results) |->
        [strategy |-> results[i].strategy,
         effectiveness |->
             IF results[i].strategy # BASELINE
             THEN calculate_mitigation_effectiveness(baseline, results[i].mean)
             ELSE PyNone]]

\* lines 249-254: the (strategy, effectiveness) pairs, in key order
RECURSIVE EffectivenessPairs(_, _)
EffectivenessPairs(results, baseline) ==
    IF Len(results) = 0 THEN <<>>
    ELSE LET rest == EffectivenessPairs(Tail(results), baseline)
         IN IF Head(results).strategy # BASELINE
            THEN <<[strategy |-> Head(results).strategy,
                    effectiveness |->
                        calculate_mitigation_effectiveness(baseline, Head(results).mean)]>>
                 \o rest
            ELSE rest

\* x put into a list in descending order of effectiveness, after the
\* elements that compare equal to it
RECURSIVE InsertDescending(_, _)
InsertDescending(x, sorted) ==
    IF Len(sorted) = 0 THEN <<x>>
    ELSE IF PyGt(x.effectiveness, Head(sorted).effectiveness)
         THEN <<x>> \o sorted
         ELSE <<Head(sorted)>> \o InsertDescending(x, Tail(sorted))

\* x put into a list in ascending order of effectiveness, after the
\* elements that compare equal to it
RECURSIVE InsertAscending(_, _)
InsertAscending(x, sorted) ==
    IF Len(sorted) = 0 THEN <<x>>
    ELSE IF PyLt(x.effectiveness, Head(sorted).effectiveness)
         THEN <<x>> \o sorted
         ELSE <<Head(sorted)>> \o InsertAscending(x, Tail(sorted))

RECURSIVE SortAscending(_, _)
SortAscending(list, sorted) ==
    IF Len(list) = 0 THEN sorted
    ELSE SortAscending(Tail(list), InsertAscending(Head(list), sorted))

Reversed(list) == [i \in 1..Len(list) |-> list[Len(list) + 1 - i]]

\* list.sort(key=lambda x: x[1], reverse=True) done as an ascending sort
\* followed by a reversal
sort_by_effectiveness_reversed(list) == Reversed(SortAscending(list, <<>>))

\* the elements of list from i on, inserted in turn
RECURSIVE SortDescending(_, _)
SortDescending(list, sorted) ==
    IF Len(list) = 0 THEN sorted
    ELSE SortDescending(Tail(list), InsertDescending(Head(list), sorted))

\* line 256: list.sort(key=lambda x: x[1], reverse=True); the sort is stable
\* and reverse=True keeps the order of elements that compare equal
sort_by_effectiveness(list) == SortDescending(list, <<>>)

generate_summary_report(results, baseline) ==
    [fn |-> "returned",
     overview |-> Overview(results, baseline),
     effectiveness_ranking |-> sort_by_effectiveness(EffectivenessPairs(results, baseline))]

\* line 565
LookUpBaseline ==
    /\ baseline_capacity = PyNone
    /\ summary = [fn |-> "pending"]
    /\ baseline_capacity' = BaselineOf(receiver_results)
    /\ UNCHANGED <<receiver_results, summary, seqVars, clsVars, metVars, cmbVars, estVars, capVars, p2Vars, p3Vars, effVars, impVars, rawVars, runVars, rcvVars, anaVars>>

\* line 577
GenerateSummaryReport ==
    /\ baseline_capacity # PyNone
    /\ summary = [fn |-> "pending"]
    /\ summary' = generate_summary_report(receiver_results, baseline_capacity)
    /\ UNCHANGED <<receiver_results, baseline_capacity, seqVars, clsVars, metVars, cmbVars, estVars, capVars, p2Vars, p3Vars, effVars, impVars, rawVars, runVars, rcvVars, anaVars>>

\* receiver_results holds any of the conditions, each once, in any order
InitSummary ==
    /\ \E n \in 0..Cardinality(Strategies) :
         \E keys \in [1..n -> Strategies] : \E means \in [1..n -> MeanCapacities] :
            /\ \A i, j \in 1..n : keys[i] = keys[j] => i = j
            /\ receiver_results = [i \in 1..n |-> Result(keys[i], means[i])]
    /\ baseline_capacity = PyNone
    /\ summary = [fn |-> "pending"]
    /\ IdleSeq
    /\ IdleClassify
    /\ IdleMetrics
    /\ IdleCombined
    /\ IdleEstimate
    /\ IdleCapacity
    /\ IdlePhase2
    /\ IdlePhase3
    /\ IdleEffectiveness
    /\ IdleImpact
    /\ IdleRaw
    /\ IdleRun
    /\ IdleReceiver
    /\ IdleAnalysis

NextSummary == LookUpBaseline \/ GenerateSummaryReport

SpecSummary == InitSummary /\ [][NextSummary]_vars

Reported == summary.fn = "returned"

\* where a condition stands in receiver_results
KeyIndex(strategy) ==
    CHOOSE i \in 1..Len(receiver_results) : receiver_results[i].strategy = strategy

\* C13: the effectiveness ranking holds every condition other than the
\* baseline exactly once and never "No Mitigation", in order of
\* non-increasing capacity reduction, and two conditions with the same
\* reduction stand in the order they have in the input.
C13_RankingIsStableDescending ==
    Reported =>
        LET rank == summary.effectiveness_ranking
        IN /\ \A i \in 1..Len(receiver_results) :
                 LET s == receiver_results[i].strategy
                 IN Cardinality({k \in 1..Len(rank) : rank[k].strategy = s})
                        = IF s = "No Mitigation" THEN 0 ELSE 1
           /\ \A k \in 1..Len(rank) :
                 /\ rank[k].strategy # "No Mitigation"
                 /\ \E i \in 1..Len(receiver_results) :
                       receiver_results[i].strategy = rank[k].strategy
           /\ \A k \in 1..(Len(rank) - 1) :
                 PyLe(rank[k + 1].effectiveness, rank[k].effectiveness)
           /\ \A k, l \in 1..Len(rank) :
                 (k < l /\ PyEq(rank[k].effectiveness, rank[l].effectiveness))
                     => KeyIndex(rank[k].strategy) < KeyIndex(rank[l].strategy)

\* Drop before Delay in the input, both at 88 % reduction: Drop stays first
C13_Witness ==
    /\ Reported
    /\ receiver_results = <<Result("Drop Mitigation", FloatVal(120, 1)),
                            Result("No Mitigation", FloatVal(1000, 1)),
                            Result("Delay Mitigation", FloatVal(120, 1))>>
    /\ summary.effectiveness_ranking =
           <<[strategy |-> "Drop Mitigation", effectiveness |-> FloatVal(88, 1)],
             [strategy |-> "Delay Mitigation", effectiveness |-> FloatVal(88, 1)]>>

----------------------------------------------------------------------------
(* phase4: calculate_mitigation_impact_metrics *)

MaxMessages == 2   \* records of one condition

\* An entry of detailed_results as calculate_additional_metrics builds it.
\* Only correct records carry a time difference, so correctness_rate is 0
\* (no such record: no capacity, no time) or 1.0; successful_messages counts
\* the capacities above 0, so mean_capacity is above 0 exactly when it is.
DetailedEntries ==
    {[total_messages |-> t, successful_messages |-> 0, correctness_rate |-> IntVal(0),
      mean_capacity |-> IntVal(0), mean_reassembly_time_ms |-> IntVal(0)]
         : t \in 1..MaxMessages}
    \cup {[total_messages |-> t, successful_messages |-> 0,
           correctness_rate |-> FloatVal(1, 1),
           mean_capacity |-> FloatVal(0, 1), mean_reassembly_time_ms |-> ms]
              : t \in 1..MaxMessages, ms \in {FloatVal(0, 1), FloatVal(1, 1)}}
    \cup {[total_messages |-> q[1], successful_messages |-> q[2],
           correctness_rate |-> FloatVal(1, 1),
           mean_capacity |-> Rat(q[3], 2), mean_reassembly_time_ms |-> FloatVal(1, 1)]
              : q \in {p \in (1..MaxMessages) \X (1..MaxMessages) \X (1..(2 * MaxCapacity)) :
                          p[2] <= p[1]}}

\* abs(v)
PyAbs(v) == [v EXCEPT !.num = Abs(v.num)]

\* the ratio without its test of the baseline quantity: a mutation that
\* divides whatever the denominator is
PercentChangeUnguarded(from, to, denominator) ==
    PyMul(PyDiv(PySub(from, to), denominator), IntVal(100))

\* (baseline - current) / baseline * 100 if baseline > 0 else 0
PercentChange(from, to, denominator) ==
    IF PyGt(denominator, IntVal(0))
    THEN PyMul(PyDiv(PySub(from, to), denominator), IntVal(100))
    ELSE IntVal(0)

\* lines 397-399
EffectivenessScore(capacity_reduction, correctness_impact, success_rate_impact) ==
    PyAdd(PyAdd(PyMul(capacity_reduction, Rat(4, 10)),
                PyMul(PyAbs(correctness_impact), Rat(3, 10))),
          PyMul(PyAbs(success_rate_impact), Rat(3, 10)))

\* lines 378-399: one iteration of the loop, for a condition other than the
\* baseline
Impact(strategy, baseline, results) ==
    LET capacity_reduction ==
            PercentChange(baseline.mean_capacity, results.mean_capacity,
                          baseline.mean_capacity)
        correctness_impact ==
            PercentChange(baseline.correctness_rate, results.correctness_rate,
                          baseline.correctness_rate)
        time_overhead ==
            PercentChange(results.mean_reassembly_time_ms,
                          baseline.mean_reassembly_time_ms,
                          baseline.mean_reassembly_time_ms)
        baseline_success_rate ==
            PyDiv(IntVal(baseline.successful_messages), IntVal(baseline.total_messages))
        current_success_rate ==
            PyDiv(IntVal(results.successful_messages), IntVal(results.total_messages))
        success_rate_impact ==
            PercentChange(baseline_success_rate, current_success_rate,
                          baseline_success_rate)
    IN [strategy |-> strategy,
        capacity_reduction |-> capacity_reduction,
        correctness_impact |-> correctness_impact,
        time_overhead |-> time_overhead,
        success_rate_impact |-> success_rate_impact,
        effectiveness_score |->
            EffectivenessScore(capacity_reduction, correctness_impact,
                               success_rate_impact)]

\* the entries of a dict whose key is not the baseline, in key order
NonBaseline(dict) == SelectSeq(dict, LAMBDA e : e.strategy # BASELINE)

\* the function: it returns at once when the dict has no baseline entry
calculate_mitigation_impact_metrics(dict) ==
    IF ~\E i \in 1..Len(dict) : dict[i].strategy = BASELINE
    THEN [fn |-> "No baseline data available", impacts |-> <<>>]
    ELSE LET baseline == dict[CHOOSE i \in 1..Len(dict) : dict[i].strategy = BASELINE].results
             others == NonBaseline(dict)
             impacts == [i \in 1..Len(others) |->
                            Impact(others[i].strategy, baseline, others[i].results)]
             raised == \E i \in 1..Len(impacts) :
                          \E f \in {"capacity_reduction", "correctness_impact",
                                    "time_overhead", "success_rate_impact"} :
                              impacts[i][f] = ZeroDivisionError
         IN [fn |-> IF raised THEN "ZeroDivisionError" ELSE "returned",
             impacts |-> impacts]

\* line 574
CalculateMitigationImpactMetrics ==
    /\ impact = [fn |-> "pending"]
    /\ impact' = calculate_mitigation_impact_metrics(detailed_results)
    /\ UNCHANGED <<detailed_results, seqVars, clsVars, metVars, cmbVars, estVars, capVars, p2Vars, p3Vars, effVars, sumVars, rawVars, runVars, rcvVars, anaVars>>

\* the keys of receiver_files, in their order
StrategyOrder == <<"No Mitigation", "Delay Mitigation", "Drop Mitigation">>

\* detailed_results holds the conditions whose log gave records, in the
\* order of receiver_files
InitImpact ==
    /\ \E present \in SUBSET (1..Len(StrategyOrder)) :
         \E entries \in [present -> DetailedEntries] :
            detailed_results =
                LET keys == SelectSeq([i \in 1..Len(StrategyOrder) |-> i],
                                      LAMBDA i : i \in present)
                IN [k \in 1..Len(keys) |->
                       [strategy |-> StrategyOrder[keys[k]], results |-> entries[keys[k]]]]
    /\ impact = [fn |-> "pending"]
    /\ IdleSeq
    /\ IdleClassify
    /\ IdleMetrics
    /\ IdleCombined
    /\ IdleEstimate
    /\ IdleCapacity
    /\ IdlePhase2
    /\ IdlePhase3
    /\ IdleEffectiveness
    /\ IdleSummary
    /\ IdleRaw
    /\ IdleRun
    /\ IdleReceiver
    /\ IdleAnalysis

NextImpact == CalculateMitigationImpactMetrics

SpecImpact == InitImpact /\ [][NextImpact]_vars

\* C14: the effectiveness score of every condition other than the baseline
\* is 0.4 * max(0, capacity reduction) + 0.3 * |correctness-rate impact|
\* + 0.3 * |success-rate impact|, and is never negative.
C14_ScoreClampedAndNonNegative ==
    impact.fn = "returned" =>
        \A i \in 1..Len(impact.impacts) :
            LET m == impact.impacts[i]
            IN /\ PyEq(m.effectiveness_score,
                       EffectivenessScore(Max0(m.capacity_reduction),
                                          m.correctness_impact, m.success_rate_impact))
               /\ PyLe(IntVal(0), m.effectiveness_score)

----------------------------------------------------------------------------
(* phase4: the comparison steps of the main block (lines 565-577) *)

\* The entries of detailed_results of a run that reaches the comparison:
\* analyze_receiver_performance has formatted the mean capacity of every
\* condition, so each has a record with a time difference.
ComparedEntries == {e \in DetailedEntries : e.correctness_rate = FloatVal(1, 1)}

\* the entry of receiver_results of the condition of a detailed_results
\* entry: both means are statistics.mean of the same capacities
ReceiverResultOf(entry) == Result(entry.strategy, entry.results.mean_capacity)

\* line 574, between the lookup of the baseline and the report
ComparisonImpact ==
    /\ baseline_capacity # PyNone
    /\ summary = [fn |-> "pending"]
    /\ impact = [fn |-> "pending"]
    /\ impact' = calculate_mitigation_impact_metrics(detailed_results)
    /\ UNCHANGED <<detailed_results, seqVars, clsVars, metVars, cmbVars, estVars, capVars, p2Vars, p3Vars, effVars, sumVars, rawVars, runVars, rcvVars, anaVars>>

\* line 577, after the impact analysis
ComparisonReport ==
    /\ baseline_capacity # PyNone
    /\ impact # [fn |-> "pending"]
    /\ summary = [fn |-> "pending"]
    /\ summary' = generate_summary_report(receiver_results, baseline_capacity)
    /\ UNCHANGED <<receiver_results, baseline_capacity, seqVars, clsVars, metVars, cmbVars, estVars, capVars, p2Vars, p3Vars, effVars, impVars, rawVars, runVars, rcvVars, anaVars>>

InitComparison ==
    /\ \E present \in SUBSET (1..Len(StrategyOrder)) :
         \E entries \in [present -> ComparedEntries] :
            detailed_results =
                LET keys == SelectSeq([i \in 1..Len(StrategyOrder) |-> i],
                                      LAMBDA i : i \in present)
                IN [k \in 1..Len(keys) |->
                       [strategy |-> StrategyOrder[keys[k]], results |-> entries[keys[k]]]]
    /\ receiver_results =
           [k \in 1..Len(detailed_results) |-> ReceiverResultOf(detailed_results[k])]
    /\ baseline_capacity = PyNone
    /\ summary = [fn |-> "pending"]
    /\ impact = [fn |-> "pending"]
    /\ IdleSeq
    /\ IdleClassify
    /\ IdleMetrics
    /\ IdleCombined
    /\ IdleEstimate
    /\ IdleCapacity
    /\ IdlePhase2
    /\ IdlePhase3
    /\ IdleEffectiveness
    /\ IdleRaw
    /\ IdleRun
    /\ IdleReceiver
    /\ IdleAnalysis

NextComparison == LookUpBaseline \/ ComparisonImpact \/ ComparisonReport

SpecComparison == InitComparison /\ [][NextComparison]_vars

\* the parsed results hold no entry for "No Mitigation"
BaselineAbsent ==
    ~\E i \in 1..Len(receiver_results) : receiver_results[i].strategy = "No Mitigation"

\* C15: when the baseline is absent from the parsed results, no comparison
\* step raises, calculate_mitigation_impact_metrics returns without
\* computing an impact, and generate_summary_report computes no
\* effectiveness figure and no ranking.
C15_MissingBaselineSkipsComparison ==
    BaselineAbsent =>
        /\ impact.fn \in {"pending", "No baseline data available"}
        /\ impact.fn = "No baseline data available" => impact.impacts = <<>>
        /\ summary.fn \in {"pending", "returned"}
        /\ summary.fn = "returned" =>
              /\ summary.effectiveness_ranking = <<>>
              /\ \A i \in 1..Len(summary.overview) :
                    summary.overview[i].effectiveness = PyNone

----------------------------------------------------------------------------
(* parse_covert_channel_data (phase2 and phase4) on the text of a log *)

MaxPieces == 2   \* pieces between the delimiters of a text

\* A piece of text between two delimiters: blank, or a block with the
\* fields whose pattern matches in it (a matched number may be 0).
BlankPiece ==
    [blank |-> TRUE, reassembly_time_ns |-> Absent, chunks_received |-> Absent,
     message_size |-> Absent, correctness |-> Absent]

Pieces ==
    {BlankPiece} \cup
    [blank : {FALSE},
     reassembly_time_ns : {Absent, IntVal(0), IntVal(1)},
     chunks_received : {Absent, IntVal(0), IntVal(1)},
     message_size : {Absent, IntVal(0), IntVal(1)},
     correctness : {Absent, PyTrue, PyFalse}]

\* the four patterns applied to a block: the matched fields
Matched(piece) ==
    [reassembly_time_ns |-> piece.reassembly_time_ns,
     chunks_received |-> piece.chunks_received,
     message_size |-> piece.message_size,
     correctness |-> piece.correctness]

\* [entry for entry in content.strip().split(delimiter) if entry.strip()]
Entries(text) ==
    LET kept == SelectSeq(text, LAMBDA piece : ~piece.blank)
    IN [i \in 1..Len(kept) |-> Matched(kept[i])]

\* parse_covert_channel_data of phase2 and of phase4 on a file that exists
phase2_parse_text(text) == phase2_parse_covert_channel_data(SenderFile(TRUE, FALSE, Entries(text)))
phase4_parse_text(text) == phase4_parse_covert_channel_data(ReceiverFile(TRUE, Entries(text)))

Phase2ParseText ==
    /\ parse_result = [fn |-> "pending"]
    /\ LET r == phase2_parse_text(raw_text)
       IN parse_result' = [fn |-> "phase2", status |-> r.status, data |-> r.data]
    /\ UNCHANGED <<raw_text, seqVars, clsVars, metVars, cmbVars, estVars, capVars, p2Vars, p3Vars, effVars, sumVars, impVars, runVars, rcvVars, anaVars>>

Phase4ParseText ==
    /\ parse_result = [fn |-> "pending"]
    /\ LET r == phase4_parse_text(raw_text)
       IN parse_result' = [fn |-> "phase4", status |-> r.status, data |-> r.data]
    /\ UNCHANGED <<raw_text, seqVars, clsVars, metVars, cmbVars, estVars, capVars, p2Vars, p3Vars, effVars, sumVars, impVars, runVars, rcvVars, anaVars>>

InitRaw ==
    /\ \E n \in 0..MaxPieces : \E text \in [1..n -> Pieces] : raw_text = text
    /\ parse_result = [fn |-> "pending"]
    /\ IdleSeq
    /\ IdleClassify
    /\ IdleMetrics
    /\ IdleCombined
    /\ IdleEstimate
    /\ IdleCapacity
    /\ IdlePhase2
    /\ IdlePhase3
    /\ IdleEffectiveness
    /\ IdleSummary
    /\ IdleImpact
    /\ IdleRun
    /\ IdleReceiver
    /\ IdleAnalysis

NextRaw == Phase2ParseText \/ Phase4ParseText

SpecRaw == InitRaw /\ [][NextRaw]_vars

ParsedText == parse_result.fn \in {"phase2", "phase4"}

\* the blocks of the text that are not blank, in order
NonBlank == SelectSeq(raw_text, LAMBDA piece : ~piece.blank)

\* C16: for every text, parse_covert_channel_data returns one record for
\* each block that is not blank, in the order of the blocks, and a record
\* holds a field exactly when its pattern matched in the block, with the
\* matched value (no record at all for a text without such a block).
C16_OneRecordPerBlockFieldsAsMatched ==
    ParsedText =>
        IF Len(NonBlank) = 0
        THEN parse_result.status = "None" /\ parse_result.data = <<>>
        ELSE /\ parse_result.status = "ok"
             /\ Len(parse_result.data) = Len(NonBlank)
             /\ \A i \in 1..Len(NonBlank) : \A f \in Fields :
                   /\ (parse_result.data[i][f] = Absent) <=> (NonBlank[i][f] = Absent)
                   /\ parse_result.data[i][f] = NonBlank[i][f]

\* C17: the phase4 parser, second pass included, completes on every text,
\* whatever fields its blocks hold or lack, and returns the records (None
\* for a text without a block).
C17_ParsingCompletesOnMissingFields ==
    parse_result.fn = "phase4" =>
        /\ parse_result.status \in {"ok", "None"}
        /\ parse_result.status = "ok" => Len(parse_result.data) = Len(NonBlank)
        /\ parse_result.status = "None" => Len(NonBlank) = 0

----------------------------------------------------------------------------
(* The loops over the log files: phase4 parse_all_data_files, phase2 main *)

\* A log file on disk: "missing", "undecodable" (it holds a byte sequence
\* that is not UTF-8), "empty" (no block, no score) or "records".
ReceiverStates == {"missing", "undecodable", "empty", "records"}
MitmStates == {"missing", "undecodable", "empty", "records"}
SenderStates == {"missing", "empty", "records"}

\* the block of a log in state "records": complete and correct
CompleteBlock ==
    [reassembly_time_ns |-> IntVal(100000000), chunks_received |-> IntVal(1),
     message_size |-> IntVal(1), correctness |-> PyTrue]

\* what the file holds once decoded; the receiver parser opens with
\* errors='ignore', which drops the undecodable bytes and keeps the rest
BlocksOf(state) == IF state \in {"records", "undecodable"} THEN <<CompleteBlock>> ELSE <<>>

\* the "Suspicion Score: " matches of a MITM log
ScoresOf(state) == IF state = "records" THEN <<Rat(1500, 1), Malformed>> ELSE <<>>

\* phase4 parse_covert_channel_data on a file in the given state
ParseReceiverFileIn(state) ==
    phase4_parse_covert_channel_data(ReceiverFile(state # "missing", BlocksOf(state)))

\* parse_mitm_log_data: FileNotFoundError is caught, the decoding error of
\* f.read() is not; a match float() rejects is skipped
parse_mitm_log_data(state) ==
    IF state = "missing"
    THEN [status |-> "ok", report |-> "Error: File not found", parsed_data |-> <<>>]
    ELSE IF state = "undecodable"
    THEN [status |-> "UnicodeDecodeError", report |-> "", parsed_data |-> <<>>]
    ELSE LET scores == SelectSeq(ScoresOf(state), IsScore)
         IN [status |-> "ok", report |-> "",
             parsed_data |->
                 [i \in 1..Len(scores) |->
                     [threat_score |-> scores[i],
                      detected |-> PyGt(scores[i], Rat(DETECTION_THRESHOLD, 1))]]]

\* the files of phase4: three receiver logs, then two MITM logs
NumReceiverFiles == 3
NumMitmFiles == 2

\* the files of phase2
NumSenderFiles == 5

\* the label of the i-th file of phase2 contains "Typed"
TypedLabel(i) == i >= 3

\* what the run has made of one file
Outcome(report, parsed) == [report |-> report, data |-> parsed]

\* lines 527-532: one iteration of the loop over receiver_files
ParseReceiverFile ==
    /\ run.program = "phase4"
    /\ run.status = "running"
    /\ run.index <= NumReceiverFiles
    /\ LET r == ParseReceiverFileIn(run_files[run.index])
       IN run' = IF r.status = "KeyError"
                 THEN [run EXCEPT !.status = "KeyError"]
                 ELSE [run EXCEPT
                         !.index = @ + 1,
                         !.outcomes = Append(@,
                             IF r.status = "None"
                             THEN Outcome("Warning: Failed to parse", <<>>)
                             ELSE Outcome("", r.data))]
    /\ UNCHANGED <<run_files, seqVars, clsVars, metVars, cmbVars, estVars, capVars, p2Vars, p3Vars, effVars, sumVars, impVars, rawVars, rcvVars, anaVars>>

\* lines 536-542: one iteration of the loop over mitm_files
ParseMitmFile ==
    /\ run.program = "phase4"
    /\ run.status = "running"
    /\ run.index > NumReceiverFiles
    /\ LET r == parse_mitm_log_data(run_files[run.index])
       IN run' = IF r.status # "ok"
                 THEN [run EXCEPT !.status = r.status]
                 ELSE [run EXCEPT
                         !.index = @ + 1,
                         !.outcomes = Append(@, Outcome(r.report, r.parsed_data)),
                         !.status = IF run.index = Len(run_files)
                                    THEN "done" ELSE "running"]
    /\ UNCHANGED <<run_files, seqVars, clsVars, metVars, cmbVars, estVars, capVars, p2Vars, p3Vars, effVars, sumVars, impVars, rawVars, rcvVars, anaVars>>

\* phase2 lines 229-312: one iteration of the loop over filenames
ProcessNextSenderFile ==
    /\ run.program = "phase2"
    /\ run.status = "running"
    /\ LET state == run_files[run.index]
           r == phase2_main_iteration(
                    SenderFile(state # "missing", TypedLabel(run.index), BlocksOf(state)))
       IN run' = IF r.status # "ok"
                 THEN [run EXCEPT !.status = r.status]
                 ELSE [run EXCEPT
                         !.index = @ + 1,
                         !.outcomes = Append(@, Outcome("", r.capacity_values_bps)),
                         !.status = IF run.index = Len(run_files)
                                    THEN "done" ELSE "running"]
    /\ UNCHANGED <<run_files, seqVars, clsVars, metVars, cmbVars, estVars, capVars, p2Vars, p3Vars, effVars, sumVars, impVars, rawVars, rcvVars, anaVars>>

Started(program) ==
    [program |-> program, index |-> 1, status |-> "running", outcomes |-> <<>>]

InitRun ==
    /\ \/ /\ run = Started("phase4")
          /\ \E r \in [1..NumReceiverFiles -> ReceiverStates] :
               \E m \in [1..NumMitmFiles -> MitmStates] : run_files = r \o m
       \/ /\ run = Started("phase2")
          /\ run_files \in [1..NumSenderFiles -> SenderStates]
    /\ IdleSeq
    /\ IdleClassify
    /\ IdleMetrics
    /\ IdleCombined
    /\ IdleEstimate
    /\ IdleCapacity
    /\ IdlePhase2
    /\ IdlePhase3
    /\ IdleEffectiveness
    /\ IdleSummary
    /\ IdleImpact
    /\ IdleRaw
    /\ IdleReceiver
    /\ IdleAnalysis

NextRun == ParseReceiverFile \/ ParseMitmFile \/ ProcessNextSenderFile

SpecRun == InitRun /\ [][NextRun]_vars

\* the file cannot be read: it is missing or cannot be decoded
Unreadable(state) == state \in {"missing", "undecodable"}

\* C18: a log file that is missing or cannot be decoded does not end the
\* run: the parser gives an empty result for it and the loop goes on to
\* the files after it.
C18_AbsentInputDoesNotAbortRun ==
    /\ (run.status \notin {"running", "done"}) => ~Unreadable(run_files[run.index])
    /\ \A i \in 1..Len(run.outcomes) :
          run_files[i] = "missing" => run.outcomes[i].data = <<>>

----------------------------------------------------------------------------
(* phase4: analyze_receiver_performance on the records of one condition *)

MaxRecords == 2   \* blocks in the receiver log of the condition

\* line 442: the records whose time difference is not None
data_with_time_diff(parsed) == SelectSeq(parsed, LAMBDA d : d.time_diff_ns # PyNone)

\* lines 444-451
ReceiverCapacities(parsed) ==
    LET with_diff == data_with_time_diff(parsed)
    IN [i \in 1..Len(with_diff) |->
           calculate_capacity_with_time_diff(with_diff[i].message_size,
                                             with_diff[i].time_diff_ns,
                                             with_diff[i].correctness).value]

\* lines 438-462, the body of the loop for one condition: a condition
\* without records is skipped; d["message_size"] raises KeyError when the
\* field is absent; formatting a None mean with :.2f raises TypeError
analyze_receiver_performance(parsed) ==
    IF Len(parsed) = 0 THEN [status |-> "skipped", samples |-> <<>>, entry |-> NoEntry]
    ELSE IF KeyErrorIn(data_with_time_diff(parsed), {"message_size"})
    THEN [status |-> "KeyError", samples |-> <<>>, entry |-> NoEntry]
    ELSE LET capacities == ReceiverCapacities(parsed)
             est == phase4_calculate_stats_and_ci(capacities)
         IN [status |-> IF est.mean = PyNone THEN "TypeError" ELSE "ok",
             samples |-> capacities,
             entry |-> ResultEntry(est)]

\* line 562: parse_all_data_files keeps the list parsed from the log of
\* the condition only when it holds a record (line 529), and
\* analyze_receiver_performance takes it
AnalyzeReceiverPerformance ==
    /\ parse_status \in {"ok", "None"}
    /\ receiver_result = [status |-> "pending"]
    /\ receiver_result' = analyze_receiver_performance(parsed_data)
    /\ UNCHANGED <<seqVars, clsVars, metVars, cmbVars, estVars, capVars, p2Vars, p3Vars, effVars, sumVars, impVars, rawVars, runVars, anaVars>>

InitReceiver ==
    /\ \/ receiver_file = ReceiverFile(FALSE, <<>>)
       \/ \E n \in 0..MaxRecords : \E e \in [1..n -> Blocks] :
              receiver_file = ReceiverFile(TRUE, e)
    /\ parsed_data = <<>>
    /\ parse_status = "pending"
    /\ receiver_result = [status |-> "pending"]
    /\ IdleClassify
    /\ IdleMetrics
    /\ IdleCombined
    /\ IdleEstimate
    /\ IdleCapacity
    /\ IdlePhase2
    /\ IdlePhase3
    /\ IdleEffectiveness
    /\ IdleSummary
    /\ IdleImpact
    /\ IdleRaw
    /\ IdleRun
    /\ IdleAnalysis

NextReceiver == ParseReceiverLog \/ AnalyzeReceiverPerformance

SpecReceiver == InitReceiver /\ [][NextReceiver]_vars

Analyzed == receiver_result.status \notin {"idle", "pending"}

\* the blocks of the log lack no field
CompleteLog ==
    \A i \in 1..Len(receiver_file.entries) :
        \A f \in Fields : receiver_file.entries[i][f] # Absent

\* the samples of the condition: its records with a time difference
NumSamples == Len(data_with_time_diff(parsed_data))

\* C19: a condition with fewer than two samples is analysed without an
\* exception: no sample gives no estimate or a skipped condition, one
\* sample gives that sample as mean and as both bounds.  (Stated for logs
\* whose blocks lack no field.)
C19_DegenerateConditionCompletes ==
    (Analyzed /\ CompleteLog /\ NumSamples < 2) =>
        /\ receiver_result.status \in {"ok", "skipped"}
        /\ (receiver_result.status = "ok" /\ NumSamples = 1) =>
              /\ receiver_result.entry.mean = receiver_result.samples[1]
              /\ receiver_result.entry.lower = receiver_result.entry.mean
              /\ receiver_result.entry.upper = receiver_result.entry.mean

\* the records with correctness = true and a time difference above 0
PositiveTimeDiff(parsed) ==
    SelectSeq(parsed, LAMBDA d : /\ IsCorrect(d)
                                 /\ d.time_diff_ns.kind = "int"
                                 /\ d.time_diff_ns.num > 0)

\* C23: the capacity-using-diff samples of a condition are one sample,
\* message_size / (time_diff_ns / 1e9), for each record with correctness =
\* true and a time difference that is not None and above 0, and nothing for
\* any other record.  (Stated for logs whose blocks lack no field.)
C23_SamplesOnlyFromPositiveTimeDiff ==
    (Analyzed /\ CompleteLog /\ receiver_result.status \in {"ok", "TypeError"}) =>
        LET defined == PositiveTimeDiff(parsed_data)
        IN /\ Len(receiver_result.samples) = Len(defined)
           /\ \A i \in 1..Len(defined) :
                 PyEq(receiver_result.samples[i],
                      PyDiv(defined[i].message_size,
                            PyDiv(defined[i].time_diff_ns, IntVal(NS_PER_SEC))))

----------------------------------------------------------------------------
(* phase4: parse_all_data_files, calculate_correctness_metrics,            *)
(* calculate_additional_metrics and calculate_mitigation_impact_metrics,   *)
(* each on what the one before it returned                                 *)

\* A block of a receiver log in which the four patterns match, but for the
\* correctness line, which may be missing.
MeasuredBlocks ==
    [reassembly_time_ns : {IntVal(0), IntVal(MaxTime * 100000000)},
     chunks_received : {IntVal(1)},
     message_size : {IntVal(MaxSize)},
     correctness : {Absent, PyTrue, PyFalse}]

\* the log of a condition that is not the one measured at length: missing,
\* or of one block, correct or not, with a reassembly time above 0
OtherLogs ==
    {ReceiverFile(FALSE, <<>>)}
    \cup {ReceiverFile(TRUE, <<b>>) :
             b \in {m \in MeasuredBlocks : /\ m.reassembly_time_ns.num > 0
                                           /\ m.correctness # Absent}}

\* lines 526-532: the conditions whose log gave records, in the order of
\* receiver_files; a raise of the parser ends the call
parse_all_data_files(logs) ==
    LET parsed == [i \in 1..Len(logs) |-> phase4_parse_covert_channel_data(logs[i])]
        kept == SelectSeq([i \in 1..Len(logs) |-> i], LAMBDA i : parsed[i].status = "ok")
    IN IF \E i \in 1..Len(logs) : parsed[i].status = "KeyError"
       THEN [status |-> "KeyError", data |-> <<>>]
       ELSE [status |-> "ok",
             data |-> [k \in 1..Len(kept) |->
                          [strategy |-> StrategyOrder[kept[k]],
                           parsed_data |-> parsed[kept[k]].data]]]

\* min(1, v): the int 1 unless v is smaller
Min1(v) == IF PyLt(v, IntVal(1)) THEN v ELSE IntVal(1)

\* sum(1 for d in list if d.get("correctness", False))
CorrectCount(list) ==
    Cardinality({i \in 1..Len(list) : Truthy(DictGet(list[i].correctness, PyFalse))})

\* lines 500-518 without the min(1, ...) of line 510: a mutation that
\* leaves the upper bound as computed
CorrectnessEntryUpperUnclamped(parsed) ==
    LET n == Len(parsed)
        correctness_rate == PyDiv(IntVal(CorrectCount(parsed)), IntVal(n))
    IN IF n > 1
       THEN LET p == correctness_rate
                se == PySqrt(PyDiv(PyMul(p, PySub(IntVal(1), p)), IntVal(n)))
                margin_of_error == PyMul(Z_SCORE, se)
            IN [mean |-> correctness_rate,
                lower |-> Max0(PySub(p, margin_of_error)),
                upper |-> PyAdd(p, margin_of_error)]
       ELSE [mean |-> correctness_rate,
             lower |-> correctness_rate,
             upper |-> correctness_rate]

\* lines 500-518: the entry of one condition
CorrectnessEntry(parsed) ==
    LET n == Len(parsed)
        correctness_rate == PyDiv(IntVal(CorrectCount(parsed)), IntVal(n))
    IN IF n > 1
       THEN LET p == correctness_rate
                se == PySqrt(PyDiv(PyMul(p, PySub(IntVal(1), p)), IntVal(n)))
                margin_of_error == PyMul(Z_SCORE, se)
            IN [mean |-> correctness_rate,
                lower |-> Max0(PySub(p, margin_of_error)),
                upper |-> Min1(PyAdd(p, margin_of_error))]
       ELSE [mean |-> correctness_rate,
             lower |-> correctness_rate,
             upper |-> correctness_rate]

\* the function: one entry for each condition that has records
calculate_correctness_metrics(receiver_data) ==
    LET with_records == SelectSeq(receiver_data, LAMBDA c : Len(c.parsed_data) > 0)
    IN [i \in 1..Len(with_records) |->
           [strategy |-> with_records[i].strategy,
            results |-> CorrectnessEntry(with_records[i].parsed_data)]]

\* line 272
additional_data_with_time_diff(parsed) ==
    SelectSeq(parsed, LAMBDA d : d.time_diff_ns # Absent /\ d.time_diff_ns # PyNone)

\* statistics.mean of a list of ints: an int when the division is exact
statistics_mean_of_ints(list) ==
    LET m == statistics_mean(list)
    IN IF m.den = 1 THEN IntVal(m.num) ELSE m

\* lines 272-301 with total_messages taken from the records that carry a
\* time difference: a mutation that counts only those
AdditionalEntryCountsTimed(parsed) ==
    LET with_diff == additional_data_with_time_diff(parsed)
        n == Len(with_diff)
        time_differences_ms ==
            [i \in 1..n |-> Rat(with_diff[i].time_diff_ms.num, with_diff[i].time_diff_ms.den)]
        capacities ==
            [i \in 1..n |->
                calculate_capacity_with_time_diff(with_diff[i].message_size,
                                                  with_diff[i].time_diff_ns,
                                                  with_diff[i].correctness).value]
        message_sizes == [i \in 1..n |-> with_diff[i].message_size]
    IN [total_messages |-> n,
        successful_messages |->
            Cardinality({i \in 1..n : PyGt(capacities[i], IntVal(0))}),
        correctness_rate |->
            IF n > 0 THEN PyDiv(IntVal(CorrectCount(with_diff)), IntVal(n)) ELSE IntVal(0),
        mean_capacity |-> IF n > 0 THEN statistics_mean(capacities) ELSE IntVal(0),
        mean_message_size |->
            IF n > 0 THEN statistics_mean_of_ints(message_sizes) ELSE IntVal(0),
        mean_reassembly_time_ms |->
            IF n > 0 THEN statistics_mean(time_differences_ms) ELSE IntVal(0),
        reassembly_time_ci |->
            IF n > 0 THEN phase4_calculate_stats_and_ci(time_differences_ms)
            ELSE [mean |-> IntVal(0), lower |-> IntVal(0), upper |-> IntVal(0)],
        time_differences_count |-> n]

\* lines 272-301: the entry of one condition
AdditionalEntry(parsed) ==
    LET with_diff == additional_data_with_time_diff(parsed)
        n == Len(with_diff)
        time_differences_ms ==
            [i \in 1..n |-> Rat(with_diff[i].time_diff_ms.num, with_diff[i].time_diff_ms.den)]
        capacities ==
            [i \in 1..n |->
                calculate_capacity_with_time_diff(with_diff[i].message_size,
                                                  with_diff[i].time_diff_ns,
                                                  with_diff[i].correctness).value]
        message_sizes == [i \in 1..n |-> with_diff[i].message_size]
    IN [total_messages |-> Len(parsed),
        successful_messages |->
            Cardinality({i \in 1..n : PyGt(capacities[i], IntVal(0))}),
        correctness_rate |->
            IF n > 0 THEN PyDiv(IntVal(CorrectCount(with_diff)), IntVal(n)) ELSE IntVal(0),
        mean_capacity |-> IF n > 0 THEN statistics_mean(capacities) ELSE IntVal(0),
        mean_message_size |->
            IF n > 0 THEN statistics_mean_of_ints(message_sizes) ELSE IntVal(0),
        mean_reassembly_time_ms |->
            IF n > 0 THEN statistics_mean(time_differences_ms) ELSE IntVal(0),
        reassembly_time_ci |->
            IF n > 0 THEN phase4_calculate_stats_and_ci(time_differences_ms)
            ELSE [mean |-> IntVal(0), lower |-> IntVal(0), upper |-> IntVal(0)],
        time_differences_count |-> n]

\* the function: a condition without records is skipped (line 268); the
\* subscripts d["message_size"] and d["chunks_received"] raise KeyError for
\* a record with a time difference that lacks the field
calculate_additional_metrics(receiver_data) ==
    LET with_records == SelectSeq(receiver_data, LAMBDA c : Len(c.parsed_data) > 0)
    IN IF \E i \in 1..Len(with_records) :
             KeyErrorIn(additional_data_with_time_diff(with_records[i].parsed_data),
                        {"message_size", "chunks_received"})
       THEN [status |-> "KeyError", dict |-> <<>>]
       ELSE [status |-> "ok",
             dict |-> [i \in 1..Len(with_records) |->
                          [strategy |-> with_records[i].strategy,
                           results |-> AdditionalEntry(with_records[i].parsed_data)]]]

\* line 559
ParseAllDataFiles ==
    /\ analysis_pc = "start"
    /\ LET r == parse_all_data_files(receiver_logs)
       IN /\ parsed_receiver_data' = r.data
          /\ analysis_pc' = IF r.status = "ok" THEN "parsed" ELSE r.status
    /\ UNCHANGED <<receiver_logs, correctness_results>>
    /\ UNCHANGED <<seqVars, clsVars, metVars, cmbVars, estVars, capVars, p2Vars, p3Vars, effVars, sumVars, impVars, rawVars, runVars, rcvVars>>

\* line 566
CalculateCorrectnessMetrics ==
    /\ analysis_pc = "parsed"
    /\ correctness_results' = calculate_correctness_metrics(parsed_receiver_data)
    /\ analysis_pc' = "correctness"
    /\ UNCHANGED <<receiver_logs, parsed_receiver_data>>
    /\ UNCHANGED <<seqVars, clsVars, metVars, cmbVars, estVars, capVars, p2Vars, p3Vars, effVars, sumVars, impVars, rawVars, runVars, rcvVars>>

\* line 572; the call of line 574 is the next to run
CalculateAdditionalMetrics ==
    /\ analysis_pc = "correctness"
    /\ LET r == calculate_additional_metrics(parsed_receiver_data)
       IN /\ detailed_results' = r.dict
          /\ analysis_pc' = IF r.status = "ok" THEN "additional" ELSE r.status
          /\ impact' = IF r.status = "ok" THEN [fn |-> "pending"] ELSE impact
    /\ UNCHANGED <<receiver_logs, parsed_receiver_data, correctness_results>>
    /\ UNCHANGED <<seqVars, clsVars, metVars, cmbVars, estVars, capVars, p2Vars, p3Vars, effVars, sumVars, rawVars, runVars, rcvVars>>

\* one condition, the baseline or the first of the others, is measured over
\* up to MaxTrials blocks, the other two over one block at most
InitAnalysis ==
    /\ \E measured \in 1..2 :
         \E n \in 0..MaxTrials : \E e \in [1..n -> MeasuredBlocks] :
           \E others \in [(1..Len(StrategyOrder)) \ {measured} -> OtherLogs] :
              receiver_logs =
                  [i \in 1..Len(StrategyOrder) |->
                      IF i = measured THEN ReceiverFile(TRUE, e) ELSE others[i]]
    /\ parsed_receiver_data = <<>>
    /\ correctness_results = <<>>
    /\ analysis_pc = "start"
    /\ IdleSeq
    /\ IdleClassify
    /\ IdleMetrics
    /\ IdleCombined
    /\ IdleEstimate
    /\ IdleCapacity
    /\ IdlePhase2
    /\ IdlePhase3
    /\ IdleEffectiveness
    /\ IdleSummary
    /\ IdleImpact
    /\ IdleRaw
    /\ IdleRun
    /\ IdleReceiver

NextAnalysis ==
    \/ ParseAllDataFiles
    \/ CalculateCorrectnessMetrics
    \/ CalculateAdditionalMetrics
    \/ CalculateMitigationImpactMetrics

SpecAnalysis == InitAnalysis /\ [][NextAnalysis]_vars

\* calculate_correctness_metrics has returned
CorrectnessComputed == analysis_pc \in {"correctness", "additional"}

\* calculate_additional_metrics has returned too
MetricsComputed == analysis_pc = "additional"

\* (records with correctness = true) / (all records) of a parsed log
FractionCorrect(parsed) ==
    PyDiv(IntVal(Cardinality({i \in 1..Len(parsed) : IsCorrect(parsed[i])})),
          IntVal(Len(parsed)))

\* C21: for every condition, total_messages is the number of its parsed
\* records and the correctness rate reported by calculate_additional_metrics
\* and by calculate_correctness_metrics is the number of records with
\* correctness = true over the number of all parsed records.
C21_RateCountsIncorrectRecords ==
    MetricsComputed =>
        /\ Len(detailed_results) = Len(parsed_receiver_data)
        /\ Len(correctness_results) = Len(parsed_receiver_data)
        /\ \A i \in 1..Len(parsed_receiver_data) :
              LET parsed == parsed_receiver_data[i].parsed_data
              IN /\ detailed_results[i].results.total_messages = Len(parsed)
                 /\ PyEq(detailed_results[i].results.correctness_rate,
                         FractionCorrect(parsed))
                 /\ PyEq(correctness_results[i].results.mean, FractionCorrect(parsed))

\* m is 1.96 times the square root of p(1 - p)/n, to the two decimal places
\* square roots are taken to
IsMarginOfError(m, p, n) ==
    LET se == PyDiv(m, Z_SCORE)
        variance == PyDiv(PyMul(p, PySub(IntVal(1), p)), IntVal(n))
        next == PyAdd(se, Rat(1, SqrtScale))
    IN /\ PyLe(IntVal(0), se)
       /\ PyLe(PyMul(se, se), variance)
       /\ PyLt(variance, PyMul(next, next))

\* C22: for a condition with n >= 2 parsed records the mean p is the
\* fraction of records with correctness = true, the bounds are
\* p -/+ 1.96 * sqrt(p(1 - p)/n) clamped to [0, 1], so that
\* 0 <= lower <= mean <= upper <= 1, and for p = 0 or p = 1 both bounds are p.
C22_ProportionIntervalClamped ==
    CorrectnessComputed =>
        \A i \in 1..Len(correctness_results) :
            LET parsed == parsed_receiver_data[i].parsed_data
                n == Len(parsed)
                p == FractionCorrect(parsed)
                c == correctness_results[i].results
            IN n >= 2 =>
                 /\ PyEq(c.mean, p)
                 /\ PyLe(IntVal(0), c.lower)
                 /\ PyLe(c.lower, c.mean)
                 /\ PyLe(c.mean, c.upper)
                 /\ PyLe(c.upper, IntVal(1))
                 /\ PyGt(c.lower, IntVal(0)) => IsMarginOfError(PySub(p, c.lower), p, n)
                 /\ PyLt(c.upper, IntVal(1)) => IsMarginOfError(PySub(c.upper, p), p, n)
                 /\ (p.num = 0 \/ p.num = p.den) => (PyEq(c.lower, p) /\ PyEq(c.upper, p))

\* two of three records correct: the lower bound is 2/3 - 1.96 * 0.27 and the
\* upper bound is clamped to 1
C22_Witness ==
    /\ CorrectnessComputed
    /\ \E i \in 1..Len(correctness_results) :
          LET c == correctness_results[i].results
          IN /\ Len(parsed_receiver_data[i].parsed_data) = 3
             /\ PyEq(c.mean, Rat(2, 3))
             /\ PyEq(c.lower, PySub(Rat(2, 3), PyMul(Z_SCORE, Rat(27, 100))))
             /\ PyEq(c.upper, IntVal(1))

\* C29: every entry calculate_additional_metrics returns has
\* 0 <= successful_messages <= time_differences_count <= total_messages and
\* total_messages >= 1, and a condition has an entry only if its log gave
\* records.
C29_CountsOrdered ==
    MetricsComputed =>
        /\ \A i \in 1..Len(detailed_results) :
              LET r == detailed_results[i].results
              IN /\ 0 <= r.successful_messages
                 /\ r.successful_messages <= r.time_differences_count
                 /\ r.time_differences_count <= r.total_messages
                 /\ r.total_messages >= 1
        /\ \A k \in 1..Len(StrategyOrder) :
              (\E i \in 1..Len(detailed_results) :
                   detailed_results[i].strategy = StrategyOrder[k])
                 => (receiver_logs[k].found /\ Len(receiver_logs[k].entries) > 0)

\* a condition of three records: one incorrect, two correct of which one
\* has a time difference that is not above 0
C29_Witness ==
    /\ MetricsComputed
    /\ \E i \in 1..Len(detailed_results) :
          LET r == detailed_results[i].results
          IN /\ r.successful_messages = 1
             /\ r.time_differences_count = 2
             /\ r.total_messages = 3

\* the entry of a condition in detailed_results
DetailedOf(strategy) ==
    detailed_results[CHOOSE i \in 1..Len(detailed_results) :
                         detailed_results[i].strategy = strategy].results

\* C30: on the detailed_results calculate_additional_metrics returns,
\* calculate_mitigation_impact_metrics raises no ZeroDivisionError: each
\* ratio against a baseline quantity that is 0 is 0, and total_messages of
\* the baseline and of every compared condition is above 0.
C30_ImpactNeverDividesByZero ==
    /\ impact.fn # "ZeroDivisionError"
    /\ (MetricsComputed /\ impact.fn = "returned") =>
          LET baseline == DetailedOf(BASELINE)
              success_rate ==
                  PyDiv(IntVal(baseline.successful_messages),
                        IntVal(baseline.total_messages))
          IN /\ baseline.total_messages > 0
             /\ \A i \in 1..Len(impact.impacts) :
                   LET m == impact.impacts[i]
                   IN /\ DetailedOf(m.strategy).total_messages > 0
                      /\ IsNumber(m.capacity_reduction)
                      /\ IsNumber(m.correctness_impact)
                      /\ IsNumber(m.time_overhead)
                      /\ IsNumber(m.success_rate_impact)
                      /\ baseline.mean_capacity.num = 0 => m.capacity_reduction = IntVal(0)
                      /\ baseline.correctness_rate.num = 0 => m.correctness_impact = IntVal(0)
                      /\ baseline.mean_reassembly_time_ms.num = 0 => m.time_overhead = IntVal(0)
                      /\ success_rate.num = 0 => m.success_rate_impact = IntVal(0)

\* a baseline without a correct record, so that each of its four quantities
\* is 0, compared with a condition that has a capacity above 0
C30_Witness ==
    /\ MetricsComputed
    /\ impact.fn = "returned"
    /\ Len(impact.impacts) >= 1
    /\ DetailedOf(BASELINE).mean_capacity.num = 0
    /\ DetailedOf(BASELINE).correctness_rate.num = 0
    /\ DetailedOf(BASELINE).mean_reassembly_time_ms.num = 0
    /\ DetailedOf(BASELINE).successful_messages = 0
    /\ \E i \in 1..Len(impact.impacts) :
          /\ DetailedOf(impact.impacts[i].strategy).mean_capacity.num > 0
          /\ impact.impacts[i].capacity_reduction = IntVal(0)
          /\ impact.impacts[i].success_rate_impact = IntVal(0)

====
